---- MODULE Spec2Model ----
(***************************************************************************)
(* A model of the NSX IvS collection adapter (src/app).                    *)
(*                                                                         *)
(* Spec          one collection pass of adapter.collect: the host loop,    *)
(*               the SSH channel of each host, every command it issues and *)
(*               the result set and master collections it fills.           *)
(*                                                                         *)
(* SpecSwitches  get_switches of switch.py called for one host after the   *)
(*               other, each call's switches appended to the master list.  *)
(* SpecNodes     get_nodes of node.py called for one host after the other, *)
(*               each call's nodes merged into the master node map.        *)
(* SpecVlan      the VLAN joins of port.py and node.py against the VLAN    *)
(*               map get_vlans builds.                                     *)
(*                                                                         *)
(* The per-host steps are the functions of port.py, vdan.py, lan.py and    *)
(* node.py as those files define them.  Where adapter.py calls a function  *)
(* with fewer arguments than the file defining it declares, the missing    *)
(* arguments are bound to the pass state of the same name.                 *)
(***************************************************************************)
EXTENDS Integers, Sequences, FiniteSets, TLC

\* ------------------------------------------------------------------ bounds
MaxHosts == 3
MaxSwitches == 1
MaxEnsRecords == 2
MaxNodeSwitches == 2
MaxMacs == 2
MaxVlans == 2
MaxPortGroups == 3
MaxCollectSwitches == 2
MaxRows == 2
MaxLines == 4
MaxEnsLines == 3
MaxCandidates == 3
MaxLanHosts == 2
MaxColumns == 14
MaxValues == 2
MaxRecords == 3

\* The VDAN indexes of the LanA lines.
VdanIndexes == {5, 6}

\* --------------------------------------------------------------- variables
VARIABLES
    pc,                     \* position of collect
    hosts,                  \* adapter.py:265  the hosts get_hosts returned
    hostCount,              \* adapter.py:282
    chan,                   \* per host: state of its sshClient channel
    cmdLog,                 \* per host: the commands handed to exec_command, in order
    steps,                  \* per host: the steps in the order they were entered
    result,                 \* objects of the CollectResult
    resultError,            \* result.with_error was called
    distSwitchesDict,       \* adapter.py:276
    masterLANList,          \* adapter.py:280
    masterHostToSwitchDict, \* adapter.py:281
    RelAddedToVMObjects,    \* adapter.py:279
    vmObject,               \* adapter.py:420  loop variable, lives across hosts
    cmdOutput,              \* adapter.py:325
    ensSwitchIDList,        \* adapter.py:367
    results,                \* port.py:51, vdan.py:52, lan.py:57, node.py:48
    cmdIdx,                 \* index of the next command of the running step
    ports,                  \* adapter.py:398
    vdans,                  \* adapter.py:403
    vmObjectList,           \* adapter.py:401
    vDANVMList,             \* adapter.py:406
    connFailed,             \* hosts whose connection failed
    cmdFailed,              \* <<host, step>>: the step in which exec_command first raised on the host
    excFailed,              \* hosts whose collection ended in adapter.py:428
    noEns,                  \* hosts whose switch list gave no ENS switch record
    swMaster,               \* switch.py:36  masterSwitchList, the calls' switches appended
    swEdges,                \* <<host, switch>>: host.add_parent(switch)
    swReported,             \* <<host, switch UUID>>: the UUIDs the output of the host yields
    swCalls,                \* get_switches calls made, one per host
    ndMaster,               \* node.py:39  masterNodeDict, MAC -> Node
    ndResult,               \* the Node objects the calls returned
    ndEdges,                \* <<node, host>>: node.add_parent(host)
    ndBuilds,               \* per MAC: how often a Node was constructed for it
    ndReported,             \* <<host, MAC>>: the MACs the output of the host lists
    ndCalls,                \* get_nodes calls made, one per host
    vlPc,                   \* VLAN map built or not
    vlDict,                 \* vlan.py:23  vlansDict
    vlEntity,               \* the entity the last VLAN join was run for
    vlParents,              \* the port-groups that join made parents of it
    clCall,                 \* the collection function called and its inputs
    clOut,                  \* what the call returned, or that it raised
    vpText,                 \* vdan.py:169  the lines of the text handed to parse_vdan_output
    vpOut,                  \* what parse_vdan_output returned
    esText,                 \* switch.py:156  the lines of the text handed to parseENSSwitchList
    esOut,                  \* what parseENSSwitchList returned
    vmCall,                 \* the VM join run: for a Port or a Vdan, its MAC, the candidates, the inventory
    vmOut,                  \* the VM parents the join gave the entity, or that it raised
    lnPc,                   \* the LAN collection of a pass: inventory fetched or not
    lnDict,                 \* adapter.py:276  distSwitchesDict, its keys in order
    lnMaster,               \* adapter.py:280  masterLANList
    lnReported,             \* <<switch UUID, Lan name>>: the pairs some host reported with a status
    lnCall,                 \* the last get_lans call and its inputs
    lnCount,                \* hosts whose Lans were collected
    nrLine,                 \* node.py:107  a line of a node list after the header lines
    nrOut,                  \* what the row loop of get_nodes made of the line
    pbBlock,                \* port.py:104  a PortID block of a latency dump
    pbOut,                  \* what the block loop of get_ports made of the block
    rcCall,                 \* the parsing loop run and the records of the output handed to it
    rcOut,                  \* what the loop made of each record, or the entities it returned
    hjCall,                 \* adapter.py:397-417  the inventories and the entities of one host
    hjOut,                  \* the entities added to the result with their parents, and how the host ended
    ncCall,                 \* the arguments of a get_nodes call with a VLAN map
    ncOut                   \* its nodesDict and the increments of the related-node counters

passVars == <<pc, hosts, hostCount, chan, cmdLog, steps, result, resultError,
              distSwitchesDict, masterLANList, masterHostToSwitchDict,
              RelAddedToVMObjects, vmObject>>
hostVars == <<cmdOutput, ensSwitchIDList, results, cmdIdx, ports, vdans,
              vmObjectList, vDANVMList>>
histVars == <<connFailed, cmdFailed, excFailed, noEns>>
swVars == <<swMaster, swEdges, swReported, swCalls>>
ndVars == <<ndMaster, ndResult, ndEdges, ndBuilds, ndReported, ndCalls>>
vlVars == <<vlPc, vlDict, vlEntity, vlParents>>
clVars == <<clCall, clOut>>
vpVars == <<vpText, vpOut>>
esVars == <<esText, esOut>>
vmVars == <<vmCall, vmOut>>
lnVars == <<lnPc, lnDict, lnMaster, lnReported, lnCall, lnCount>>
nrVars == <<nrLine, nrOut>>
pbVars == <<pbBlock, pbOut>>
rcVars == <<rcCall, rcOut>>
hjVars == <<hjCall, hjOut>>
ncVars == <<ncCall, ncOut>>
fnVars == <<swVars, ndVars, vlVars, clVars, vpVars, esVars, vmVars, lnVars, nrVars, pbVars, rcVars, hjVars, ncVars>>
vars == <<passVars, hostVars, histVars, fnVars>>

\* ----------------------------------------------------------------- helpers
Range(s) == {s[i] : i \in 1..Len(s)}

Last(s) == s[Len(s)]

RECURSIVE SeqOfRange(_, _)
SeqOfRange(a, b) == IF a > b THEN <<>> ELSE <<a>> \o SeqOfRange(a + 1, b)

Unbound == <<"unbound", 0>>

UNKNOWN == <<"UNKNOWN", 0>>

SwitchUUID(id) == <<"uuid", id>>

HostIds == 1..MaxHosts

\* The current host of the loop.
host == hostCount

\* ------------------------------------------------------- command channel
\* exec_command raised (timeout, SSH error, authentication error), or returned
\* with an exit status.
ExitStatuses == {0, 1}

Cmd(name, sw) == [cmd |-> name, sw |-> sw]

\* A channel that issues every command a second time.
exec_command_retried(log, h, c) == [log EXCEPT ![h] = Append(Append(@, c), c)]

\* sshClient.exec_command(c) on the channel of host h
exec_command(log, h, c) == [log EXCEPT ![h] = Append(@, c)]

\* The discovery commands the other way round.
DiscoveryCommandsSwapped == <<Cmd("vswitch instance list", 0), Cmd("ens switch list", 0)>>

\* adapter.py:324
DiscoveryCommands == <<Cmd("ens switch list", 0), Cmd("vswitch instance list", 0)>>

\* The commands of a host issued switch by switch: dump, then clear.
PortCommandsPerSwitch(ids) ==
    [i \in 1..(2 * Len(ids)) |->
        IF i % 2 = 1 THEN Cmd("ens latency system dump", ids[(i + 1) \div 2])
                     ELSE Cmd("ens latency system clear", ids[i \div 2])]

\* port.py:58-61  every dump command, then every clear command
PortCommands(ids) ==
    [i \in 1..(2 * Len(ids)) |->
        IF i <= Len(ids) THEN Cmd("ens latency system dump", ids[i])
                         ELSE Cmd("ens latency system clear", ids[i - Len(ids)])]

\* vdan.py:59-60
VdanCommands(ids) == [i \in 1..Len(ids) |-> Cmd("ens prp stats vdan list", ids[i])]

\* lan.py:63-64
LanCommands(ids) == [i \in 1..Len(ids) |-> Cmd("get ens prp config", ids[i])]

\* node.py:57-58
NodeCommands(ids) == [i \in 1..Len(ids) |-> Cmd("ens prp node list", ids[i])]

\* Output of the switch list command: the text is empty or not, and holds
\* recs rows that match the row grammar.
SwitchListOutputs ==
    {[empty |-> TRUE, recs |-> 0]} \cup {[empty |-> FALSE, recs |-> n] : n \in 0..MaxSwitches}

\* Output of the instance list command.
InstanceListOutputs == {[empty |-> TRUE, recs |-> 0], [empty |-> FALSE, recs |-> 0]}

\* Output of a collection command: the number of records (PortID blocks, LanA
\* lines, node rows, Lan sections with a status) its text holds.
RecordCounts == {0, 1}

\* ------------------------------------------------------------ entities
Entity(kind, h, key) == [kind |-> kind, host |-> h, key |-> key]

CollectedKinds == {"port", "vdan", "lan", "node"}

\* adapter.py:365-370  parse_ensswitch_list and the swID of each record
EnsSwitchIDs(out) == IF out.empty THEN <<>> ELSE SeqOfRange(1, out.recs)

\* The host's switch table: switch ID -> switch UUID and friendly name.
get_host_switches(h, ids) ==
    [hh \in {h} |->
        [i \in 1..Len(ids) |->
            [switchID |-> ids[i], switchUUID |-> SwitchUUID(ids[i]), friendlyName |-> <<"dvs", ids[i]>>]]]

\* adapter.py:390-394
MergeHostToSwitchDict(master, hostToSwitchDict) ==
    IF DOMAIN master = {} THEN hostToSwitchDict
    ELSE [k \in DOMAIN master \cup DOMAIN hostToSwitchDict |->
             IF k \in DOMAIN hostToSwitchDict THEN hostToSwitchDict[k] ELSE master[k]]

\* port.py:91-103, vdan.py:91-103, node.py:93-103, lan.py:107-113
HostSwitchLookup(hostSwitchList, id) ==
    LET hit == {j \in 1..Len(hostSwitchList) : hostSwitchList[j].switchID = id}
        j == CHOOSE x \in hit : \A y \in hit : x <= y
    IN  IF hit = {} THEN [found |-> FALSE, uuid |-> UNKNOWN, name |-> UNKNOWN]
        ELSE [found |-> TRUE, uuid |-> hostSwitchList[j].switchUUID,
              name |-> hostSwitchList[j].friendlyName]

\* port.py:89-162  the Ports of the dump outputs; none unless every command
\* of the step returned output
PortsOf(h, ids, outs) ==
    IF Len(outs) = Len(PortCommands(ids))
    THEN UNION {{Entity("port", h, <<SwitchUUID(ids[i]), <<"PortID", j>>>>) : j \in 1..outs[i]} : i \in 1..Len(ids)}
    ELSE {}

\* vdan.py:89-155
VdansOf(h, ids, outs) ==
    IF Len(outs) = Len(VdanCommands(ids))
    THEN UNION {{Entity("vdan", h, <<SwitchUUID(ids[i]), <<"vdan", j>>>>) : j \in 1..outs[i]} : i \in 1..Len(ids)}
    ELSE {}

\* node.py:89-169
NodesOf(h, ids, outs) ==
    IF Len(outs) = Len(NodeCommands(ids))
    THEN UNION {{Entity("node", h, <<SwitchUUID(ids[i]), <<"mac", j>>>>) : j \in 1..outs[i]} : i \in 1..Len(ids)}
    ELSE {}

\* Iterating a dict visits its keys: adapter.py:410 hands distSwitchesDict, a
\* dict keyed by switch UUID, to the masterSwitchList parameter of get_lans.
IterDict(d) == [i \in 1..Len(d) |-> [tag |-> "str", switch_uuid |-> d[i], name |-> d[i]]]

\* lan.py:118-127  "raise": an element without get_property_values
RECURSIVE MasterSwitchScan(_, _, _)
MasterSwitchScan(masterSwitchList, k, uuid) ==
    IF k > Len(masterSwitchList) THEN [st |-> "none", idx |-> 0]
    ELSE IF masterSwitchList[k].tag # "obj" THEN [st |-> "raise", idx |-> k]
    ELSE IF masterSwitchList[k].switch_uuid = uuid THEN [st |-> "found", idx |-> k]
    ELSE MasterSwitchScan(masterSwitchList, k + 1, uuid)

\* lan.py:132-169  the Lan objects of one parsed output
RECURSIVE LanItems(_, _, _, _, _)
LanItems(h, lanList, k, uuid, masterLAN) ==
    IF k > Len(lanList) THEN <<>>
    ELSE LET key == <<uuid, lanList[k].name>>
             exists == \E m \in Range(masterLAN) : m.key = key
             here == IF lanList[k].hasStatus /\ ~exists
                     THEN <<Entity("lan", h, key)>> ELSE <<>>
         IN  here \o LanItems(h, lanList, k + 1, uuid, masterLAN)

\* lan.py:94-174  one command output
LansOfOutput(h, parsed, hostSwitchList, masterSwitchList, masterLAN) ==
    IF Len(parsed.lans) = 0 \/ parsed.switchID = 0 THEN <<>>
    ELSE LET hs == HostSwitchLookup(hostSwitchList, parsed.switchID)
             sc == MasterSwitchScan(masterSwitchList, 1, hs.uuid)
         IN  IF ~hs.found \/ sc.st # "found" THEN <<>>
             ELSE LanItems(h, parsed.lans, 1, masterSwitchList[sc.idx].switch_uuid, masterLAN)

\* lan.py:92-176
RECURSIVE get_lans(_, _, _, _, _, _)
get_lans(h, outs, k, hostSwitchList, masterSwitchList, masterLAN) ==
    IF k > Len(outs) THEN <<>>
    ELSE LansOfOutput(h, outs[k], hostSwitchList, masterSwitchList, masterLAN)
         \o get_lans(h, outs, k + 1, hostSwitchList, masterSwitchList, masterLAN)

\* A PRP config output of switch id with n Lan sections that have a status.
LanOutput(id, n) ==
    [switchID |-> id, lans |-> [j \in 1..n |-> [name |-> <<"Lan", j>>, hasStatus |-> TRUE]]]

\* The VM objects get_vms returns for host h (one VM per host here).
VMOf(h) == <<"vm", h>>

\* adapter.py:419-425  the VM objects of the Vdans, one after the other.
\* rel: RelAddedToVMObjects, vmo: the variable vmObject; "raise" when vmObject
\* is read before any iteration of the loop at 420 bound it.
RECURSIVE AddVdanVMs(_, _, _, _)
AddVdanVMs(list, k, rel, vmo) ==
    IF k > Len(list) THEN [st |-> "ok", rel |-> rel]
    ELSE IF list[k] \in rel THEN AddVdanVMs(list, k + 1, rel, vmo)
    ELSE IF vmo = Unbound THEN [st |-> "raise", rel |-> rel]
    ELSE AddVdanVMs(list, k + 1, rel \cup {vmo}, vmo)

\* ------------------------------------------------------------- the pass
Init ==
    /\ pc = "start"
    /\ hosts = <<>>
    /\ hostCount = 0
    /\ chan = [h \in HostIds |-> "none"]
    /\ cmdLog = [h \in HostIds |-> <<>>]
    /\ steps = [h \in HostIds |-> <<>>]
    /\ result = {}
    /\ resultError = FALSE
    /\ distSwitchesDict = <<>>
    /\ masterLANList = <<>>
    /\ masterHostToSwitchDict = <<>>
    /\ RelAddedToVMObjects = {}
    /\ vmObject = Unbound
    /\ cmdOutput = <<>>
    /\ ensSwitchIDList = <<>>
    /\ results = <<>>
    /\ cmdIdx = 1
    /\ ports = {}
    /\ vdans = {}
    /\ vmObjectList = <<>>
    /\ vDANVMList = <<>>
    /\ connFailed = {}
    /\ cmdFailed = {}
    /\ excFailed = {}
    /\ noEns = {}
    /\ swMaster = <<>>
    /\ swEdges = {}
    /\ swReported = {}
    /\ swCalls = 0
    /\ ndMaster = <<>>
    /\ ndResult = {}
    /\ ndEdges = {}
    /\ ndBuilds = [m \in 1..MaxMacs |-> 0]
    /\ ndReported = {}
    /\ ndCalls = 0
    /\ vlPc = "start"
    /\ vlDict = <<>>
    /\ vlEntity = [kind |-> "none", vlan |-> 0, switchUUID |-> UNKNOWN]
    /\ vlParents = {}
    /\ clCall = [fn |-> "none"]
    /\ clOut = [st |-> "none", objects |-> {}]
    /\ vpText = <<>>
    /\ vpOut = [st |-> "none", vdans |-> <<>>]
    /\ esText = <<>>
    /\ esOut = [st |-> "none", ensSwitchList |-> <<>>]
    /\ vmCall = [kind |-> "none"]
    /\ vmOut = [st |-> "none", parents |-> {}]
    /\ lnPc = "start"
    /\ lnDict = <<>>
    /\ lnMaster = <<>>
    /\ lnReported = {}
    /\ lnCall = [host |-> 0]
    /\ lnCount = 0
    /\ nrLine = [st |-> "none"]
    /\ nrOut = [st |-> "none", props |-> {}, metrics |-> {}]
    /\ pbBlock = [st |-> "none"]
    /\ pbOut = [st |-> "none", metrics |-> {}]
    /\ rcCall = [fn |-> "none"]
    /\ rcOut = <<>>
    /\ hjCall = [st |-> "none"]
    /\ hjOut = [st |-> "none", result |-> {}, rel |-> {}]
    /\ ncCall = [st |-> "none"]
    /\ ncOut = [st |-> "none", nodesDict |-> <<>>, incr |-> <<>>]

\* A pass that does not look at the number of hosts.
AlwaysResolved(hs) == TRUE

\* adapter.py:268
HostsResolved(hs) == Len(hs) > 0

\* The distributed switches of the inventory, keyed by UUID.
InventorySwitches == [i \in 1..MaxSwitches |-> SwitchUUID(i)]

\* adapter.py:264-282  get_hosts (an empty list also when the provider call
\* raised, host.py:49-52), then the distributed switches of the inventory
GetHosts ==
    /\ pc = "start"
    /\ \E n \in 0..MaxHosts, ds \in {InventorySwitches} :
        /\ hosts' = SeqOfRange(1, n)
        /\ IF HostsResolved(hosts')
           THEN /\ pc' = "loop"
                /\ distSwitchesDict' = ds
                /\ UNCHANGED resultError
           ELSE /\ pc' = "returned"
                /\ resultError' = TRUE
                /\ UNCHANGED distSwitchesDict
    /\ UNCHANGED <<hostCount, chan, cmdLog, steps, result, masterLANList,
                   masterHostToSwitchDict, RelAddedToVMObjects, vmObject>>
    /\ UNCHANGED <<hostVars, histVars>>
    /\ UNCHANGED fnVars

\* A connect failure after which the loop body goes on.
ConnectFailureFallsThrough == "discover"

\* adapter.py:299, 304, 309, 314  `continue`: on to the next host
AfterConnectFailure == "loop"

\* adapter.py:284-314  no management address, or connect raised
ConnectFail ==
    /\ pc = "loop"
    /\ hostCount < Len(hosts)
    /\ hostCount' = hostCount + 1
    /\ \E cause \in {"no address", "authentication", "ssh", "timeout"} :
        /\ connFailed' = connFailed \cup {hostCount'}
        /\ steps' = [steps EXCEPT ![hostCount'] = <<"connect", "failed">>]
    /\ pc' = AfterConnectFailure
    /\ cmdOutput' = <<>>
    /\ UNCHANGED <<hosts, chan, cmdLog, result, resultError, distSwitchesDict,
                   masterLANList, masterHostToSwitchDict, RelAddedToVMObjects, vmObject>>
    /\ UNCHANGED <<ensSwitchIDList, results, cmdIdx, ports, vdans, vmObjectList, vDANVMList>>
    /\ UNCHANGED <<cmdFailed, excFailed, noEns>>
    /\ UNCHANGED fnVars

\* adapter.py:284-295, 316
ConnectOK ==
    /\ pc = "loop"
    /\ hostCount < Len(hosts)
    /\ hostCount' = hostCount + 1
    /\ chan' = [chan EXCEPT ![hostCount'] = "open"]
    /\ steps' = [steps EXCEPT ![hostCount'] = <<"connect">>]
    /\ pc' = "discover"
    /\ cmdOutput' = <<>>
    /\ UNCHANGED <<hosts, cmdLog, result, resultError, distSwitchesDict,
                   masterLANList, masterHostToSwitchDict, RelAddedToVMObjects, vmObject>>
    /\ UNCHANGED <<ensSwitchIDList, results, cmdIdx, ports, vdans, vmObjectList, vDANVMList>>
    /\ UNCHANGED histVars
    /\ UNCHANGED fnVars

\* A finally clause that does not close the channel.
FinallyLeavesOpen(ch, h) == ch

\* adapter.py:432-434  finally: close the channel of the host
Finally(ch, h) == [ch EXCEPT ![h] = "closed"]

\* The hosts on which exec_command raised.
FailedHosts == {p[1] : p \in cmdFailed}

RecordFailure(h, step) == IF h \in FailedHosts THEN cmdFailed ELSE cmdFailed \cup {<<h, step>>}

\* Entering a step for the first time logs it.
Enter(h, step) ==
    IF \E i \in 1..Len(steps[h]) : steps[h][i] = step THEN steps
    ELSE [steps EXCEPT ![h] = Append(@, step)]

\* The host leaves the loop body as done or as failed.
Leave(st, h, how) == [st EXCEPT ![h] = Append(@, how)]

\* adapter.py:327-338, 354-355  a discovery command returns
ExecDiscoveryOK ==
    /\ pc = "discover"
    /\ LET c == DiscoveryCommands[Len(cmdOutput) + 1] IN
        /\ cmdLog' = exec_command(cmdLog, host, c)
        /\ \E exit \in ExitStatuses,
              out \in IF Len(cmdOutput) = 0 THEN SwitchListOutputs ELSE InstanceListOutputs :
            /\ cmdOutput' = Append(cmdOutput, out)
            /\ noEns' = IF Len(cmdOutput) = 0 /\ EnsSwitchIDs(out) = <<>>
                        THEN noEns \cup {host} ELSE noEns
    /\ steps' = Enter(host, "discover")
    /\ pc' = IF Len(cmdOutput') = Len(DiscoveryCommands) THEN "resolve" ELSE "discover"
    /\ UNCHANGED <<hosts, hostCount, chan, result, resultError, distSwitchesDict,
                   masterLANList, masterHostToSwitchDict, RelAddedToVMObjects, vmObject>>
    /\ UNCHANGED <<ensSwitchIDList, results, cmdIdx, ports, vdans, vmObjectList, vDANVMList>>
    /\ UNCHANGED <<connFailed, cmdFailed, excFailed>>
    /\ UNCHANGED fnVars

\* adapter.py:339-353, 357-359  exec_command raised: break, then continue
ExecDiscoveryExc ==
    /\ pc = "discover"
    /\ cmdLog' = exec_command(cmdLog, host, DiscoveryCommands[Len(cmdOutput) + 1])
    /\ cmdFailed' = RecordFailure(host, "discover")
    /\ steps' = Leave(Enter(host, "discover"), host, "failed")
    /\ chan' = Finally(chan, host)
    /\ pc' = "loop"
    /\ UNCHANGED <<hosts, hostCount, result, resultError, distSwitchesDict,
                   masterLANList, masterHostToSwitchDict, RelAddedToVMObjects, vmObject>>
    /\ UNCHANGED hostVars
    /\ UNCHANGED <<connFailed, excFailed, noEns>>
    /\ UNCHANGED fnVars

\* A host without ENS switch records that is collected from all the same.
NoEnsFallsThrough == "ports"

\* adapter.py:361-382  where a host without ENS switch records goes
AfterNoEnsSwitches == "loop"

\* adapter.py:361-382
ResolveNoEnsSwitches ==
    /\ pc = "resolve"
    /\ EnsSwitchIDs(cmdOutput[1]) = <<>>
    /\ pc' = AfterNoEnsSwitches
    /\ steps' = Leave(steps, host, "done")
    /\ chan' = Finally(chan, host)
    /\ UNCHANGED <<hosts, hostCount, cmdLog, result, resultError, distSwitchesDict,
                   masterLANList, masterHostToSwitchDict, RelAddedToVMObjects, vmObject>>
    /\ UNCHANGED <<cmdOutput, ensSwitchIDList, ports, vdans, vmObjectList, vDANVMList>>
    /\ cmdIdx' = 1
    /\ results' = <<>>
    /\ UNCHANGED histVars
    /\ UNCHANGED fnVars

\* adapter.py:384-387
ResolveEmptyInstanceList ==
    /\ pc = "resolve"
    /\ EnsSwitchIDs(cmdOutput[1]) # <<>>
    /\ cmdOutput[2].empty
    /\ ensSwitchIDList' = EnsSwitchIDs(cmdOutput[1])
    /\ pc' = "loop"
    /\ steps' = Leave(steps, host, "done")
    /\ chan' = Finally(chan, host)
    /\ UNCHANGED <<hosts, hostCount, cmdLog, result, resultError, distSwitchesDict,
                   masterLANList, masterHostToSwitchDict, RelAddedToVMObjects, vmObject>>
    /\ UNCHANGED <<cmdOutput, results, cmdIdx, ports, vdans, vmObjectList, vDANVMList>>
    /\ UNCHANGED histVars
    /\ UNCHANGED fnVars

\* adapter.py:389-397
ResolveHostSwitches ==
    /\ pc = "resolve"
    /\ EnsSwitchIDs(cmdOutput[1]) # <<>>
    /\ ~cmdOutput[2].empty
    /\ ensSwitchIDList' = EnsSwitchIDs(cmdOutput[1])
    /\ masterHostToSwitchDict' =
           MergeHostToSwitchDict(masterHostToSwitchDict, get_host_switches(host, ensSwitchIDList'))
    /\ steps' = Enter(host, "resolve")
    /\ pc' = "ports"
    /\ cmdIdx' = 1
    /\ results' = <<>>
    /\ UNCHANGED <<hosts, hostCount, chan, cmdLog, result, resultError, distSwitchesDict,
                   masterLANList, RelAddedToVMObjects, vmObject>>
    /\ UNCHANGED <<cmdOutput, ports, vdans, vmObjectList, vDANVMList>>
    /\ UNCHANGED histVars
    /\ UNCHANGED fnVars

\* The steps that swallow a raising exec_command (port.py:77-85, vdan.py:76-84,
\* lan.py:80-88) go on with the next command of their list.
StepAfterCommand(step, built, idx, cmds) == IF idx > Len(cmds) THEN built ELSE step

\* port.py:65-76, 86-87  a latency command returns
ExecPortCmdOK ==
    /\ pc = "ports"
    /\ cmdIdx <= Len(PortCommands(ensSwitchIDList))
    /\ LET cmds == PortCommands(ensSwitchIDList) IN
        /\ cmdLog' = exec_command(cmdLog, host, cmds[cmdIdx])
        /\ \E exit \in ExitStatuses,
              out \in IF cmdIdx <= Len(ensSwitchIDList) THEN RecordCounts ELSE {0} :
            results' = Append(results, out)
        /\ cmdIdx' = cmdIdx + 1
        /\ pc' = StepAfterCommand("ports", "portsBuild", cmdIdx', cmds)
    /\ steps' = Enter(host, "ports")
    /\ UNCHANGED <<hosts, hostCount, chan, result, resultError, distSwitchesDict,
                   masterLANList, masterHostToSwitchDict, RelAddedToVMObjects, vmObject>>
    /\ UNCHANGED <<cmdOutput, ensSwitchIDList, ports, vdans, vmObjectList, vDANVMList>>
    /\ UNCHANGED histVars
    /\ UNCHANGED fnVars

\* port.py:77-85  exec_command raised: logged, the loop goes on
ExecPortCmdExc ==
    /\ pc = "ports"
    /\ cmdIdx <= Len(PortCommands(ensSwitchIDList))
    /\ LET cmds == PortCommands(ensSwitchIDList) IN
        /\ cmdLog' = exec_command(cmdLog, host, cmds[cmdIdx])
        /\ cmdIdx' = cmdIdx + 1
        /\ pc' = StepAfterCommand("ports", "portsBuild", cmdIdx', cmds)
    /\ cmdFailed' = RecordFailure(host, "ports")
    /\ steps' = Enter(host, "ports")
    /\ UNCHANGED <<hosts, hostCount, chan, result, resultError, distSwitchesDict,
                   masterLANList, masterHostToSwitchDict, RelAddedToVMObjects, vmObject>>
    /\ UNCHANGED <<cmdOutput, ensSwitchIDList, results, ports, vdans, vmObjectList, vDANVMList>>
    /\ UNCHANGED <<connFailed, excFailed, noEns>>
    /\ UNCHANGED fnVars

\* A result set that keeps only what was added last.
MergeKeepsOnlyNew(res, objs) == objs

\* adapter.py:399, 404, 416  result.add_objects
add_objects(res, objs) == res \cup objs

\* port.py:88-178, adapter.py:398-401  the Ports are built and added; the VMs
\* add_port_relationships related to a Port (port.py:233-248)
PortsBuild ==
    /\ pc = "portsBuild"
    /\ ports' = PortsOf(host, ensSwitchIDList, results)
    /\ result' = add_objects(result, ports')
    /\ \E vl \in IF ports' = {} THEN {<<>>} ELSE {<<>>, <<VMOf(host)>>} :
        vmObjectList' = vl
    /\ pc' = "vdans"
    /\ cmdIdx' = 1
    /\ results' = <<>>
    /\ UNCHANGED <<hosts, hostCount, chan, cmdLog, steps, resultError, distSwitchesDict,
                   masterLANList, masterHostToSwitchDict, RelAddedToVMObjects, vmObject>>
    /\ UNCHANGED <<cmdOutput, ensSwitchIDList, vdans, vDANVMList>>
    /\ UNCHANGED histVars
    /\ UNCHANGED fnVars

\* vdan.py:64-75, 85-86
ExecVdanCmdOK ==
    /\ pc = "vdans"
    /\ cmdIdx <= Len(VdanCommands(ensSwitchIDList))
    /\ LET cmds == VdanCommands(ensSwitchIDList) IN
        /\ cmdLog' = exec_command(cmdLog, host, cmds[cmdIdx])
        /\ \E exit \in ExitStatuses, out \in RecordCounts :
            results' = Append(results, out)
        /\ cmdIdx' = cmdIdx + 1
        /\ pc' = StepAfterCommand("vdans", "vdansBuild", cmdIdx', cmds)
    /\ steps' = Enter(host, "vdans")
    /\ UNCHANGED <<hosts, hostCount, chan, result, resultError, distSwitchesDict,
                   masterLANList, masterHostToSwitchDict, RelAddedToVMObjects, vmObject>>
    /\ UNCHANGED <<cmdOutput, ensSwitchIDList, ports, vdans, vmObjectList, vDANVMList>>
    /\ UNCHANGED histVars
    /\ UNCHANGED fnVars

\* vdan.py:76-84
ExecVdanCmdExc ==
    /\ pc = "vdans"
    /\ cmdIdx <= Len(VdanCommands(ensSwitchIDList))
    /\ LET cmds == VdanCommands(ensSwitchIDList) IN
        /\ cmdLog' = exec_command(cmdLog, host, cmds[cmdIdx])
        /\ cmdIdx' = cmdIdx + 1
        /\ pc' = StepAfterCommand("vdans", "vdansBuild", cmdIdx', cmds)
    /\ cmdFailed' = RecordFailure(host, "vdans")
    /\ steps' = Enter(host, "vdans")
    /\ UNCHANGED <<hosts, hostCount, chan, result, resultError, distSwitchesDict,
                   masterLANList, masterHostToSwitchDict, RelAddedToVMObjects, vmObject>>
    /\ UNCHANGED <<cmdOutput, ensSwitchIDList, results, ports, vdans, vmObjectList, vDANVMList>>
    /\ UNCHANGED <<connFailed, excFailed, noEns>>
    /\ UNCHANGED fnVars

\* vdan.py:88-167, adapter.py:403-407  the Vdans are built and added; the VMs
\* add_vdan_vm_relationship related to a Vdan (vdan.py:232-249): only MACs
\* that add_port_relationships put into vmMacNameDict, which it fills only
\* when the host has Ports (port.py:186, 232)
VdansBuild ==
    /\ pc = "vdansBuild"
    /\ vdans' = VdansOf(host, ensSwitchIDList, results)
    /\ result' = add_objects(result, vdans')
    /\ \E vl \in IF vdans' = {} \/ ports = {} THEN {<<>>} ELSE {<<>>, <<VMOf(host)>>} :
        vDANVMList' = vl
    /\ pc' = "lans"
    /\ cmdIdx' = 1
    /\ results' = <<>>
    /\ UNCHANGED <<hosts, hostCount, chan, cmdLog, steps, resultError, distSwitchesDict,
                   masterLANList, masterHostToSwitchDict, RelAddedToVMObjects, vmObject>>
    /\ UNCHANGED <<cmdOutput, ensSwitchIDList, ports, vmObjectList>>
    /\ UNCHANGED histVars
    /\ UNCHANGED fnVars

\* lan.py:68-79, 89-90
ExecLanCmdOK ==
    /\ pc = "lans"
    /\ cmdIdx <= Len(LanCommands(ensSwitchIDList))
    /\ LET cmds == LanCommands(ensSwitchIDList) IN
        /\ cmdLog' = exec_command(cmdLog, host, cmds[cmdIdx])
        /\ \E exit \in ExitStatuses, n \in RecordCounts :
            results' = Append(results, LanOutput(cmds[cmdIdx].sw, n))
        /\ cmdIdx' = cmdIdx + 1
        /\ pc' = StepAfterCommand("lans", "lansBuild", cmdIdx', cmds)
    /\ steps' = Enter(host, "lans")
    /\ UNCHANGED <<hosts, hostCount, chan, result, resultError, distSwitchesDict,
                   masterLANList, masterHostToSwitchDict, RelAddedToVMObjects, vmObject>>
    /\ UNCHANGED <<cmdOutput, ensSwitchIDList, ports, vdans, vmObjectList, vDANVMList>>
    /\ UNCHANGED histVars
    /\ UNCHANGED fnVars

\* lan.py:80-88
ExecLanCmdExc ==
    /\ pc = "lans"
    /\ cmdIdx <= Len(LanCommands(ensSwitchIDList))
    /\ LET cmds == LanCommands(ensSwitchIDList) IN
        /\ cmdLog' = exec_command(cmdLog, host, cmds[cmdIdx])
        /\ cmdIdx' = cmdIdx + 1
        /\ pc' = StepAfterCommand("lans", "lansBuild", cmdIdx', cmds)
    /\ cmdFailed' = RecordFailure(host, "lans")
    /\ steps' = Enter(host, "lans")
    /\ UNCHANGED <<hosts, hostCount, chan, result, resultError, distSwitchesDict,
                   masterLANList, masterHostToSwitchDict, RelAddedToVMObjects, vmObject>>
    /\ UNCHANGED <<cmdOutput, ensSwitchIDList, results, ports, vdans, vmObjectList, vDANVMList>>
    /\ UNCHANGED <<connFailed, excFailed, noEns>>
    /\ UNCHANGED fnVars

\* lan.py:92-180, adapter.py:410-412
LansBuild ==
    /\ pc = "lansBuild"
    /\ LET outs == IF Len(results) = Len(LanCommands(ensSwitchIDList)) THEN results ELSE <<>>
           lans == get_lans(host, outs, 1, masterHostToSwitchDict[host],
                            IterDict(distSwitchesDict), masterLANList)
       IN  masterLANList' = masterLANList \o lans
    /\ pc' = "nodes"
    /\ cmdIdx' = 1
    /\ results' = <<>>
    /\ UNCHANGED <<hosts, hostCount, chan, cmdLog, steps, result, resultError, distSwitchesDict,
                   masterHostToSwitchDict, RelAddedToVMObjects, vmObject>>
    /\ UNCHANGED <<cmdOutput, ensSwitchIDList, ports, vdans, vmObjectList, vDANVMList>>
    /\ UNCHANGED histVars
    /\ UNCHANGED fnVars

\* node.py:62-71, 87-88  exit status 0
ExecNodeCmdOK ==
    /\ pc = "nodes"
    /\ cmdIdx <= Len(NodeCommands(ensSwitchIDList))
    /\ LET cmds == NodeCommands(ensSwitchIDList) IN
        /\ cmdLog' = exec_command(cmdLog, host, cmds[cmdIdx])
        /\ \E out \in RecordCounts : results' = Append(results, out)
        /\ cmdIdx' = cmdIdx + 1
        /\ pc' = StepAfterCommand("nodes", "nodesBuild", cmdIdx', cmds)
    /\ steps' = Enter(host, "nodes")
    /\ UNCHANGED <<hosts, hostCount, chan, result, resultError, distSwitchesDict,
                   masterLANList, masterHostToSwitchDict, RelAddedToVMObjects, vmObject>>
    /\ UNCHANGED <<cmdOutput, ensSwitchIDList, ports, vdans, vmObjectList, vDANVMList>>
    /\ UNCHANGED histVars
    /\ UNCHANGED fnVars

\* node.py:72-74  a non-zero exit status: get_nodes returns what it has, nothing
ExecNodeCmdNonZero ==
    /\ pc = "nodes"
    /\ cmdIdx <= Len(NodeCommands(ensSwitchIDList))
    /\ cmdLog' = exec_command(cmdLog, host, NodeCommands(ensSwitchIDList)[cmdIdx])
    /\ \E out \in RecordCounts : results' = Append(results, out)
    /\ pc' = "finish"
    /\ steps' = Enter(host, "nodes")
    /\ UNCHANGED <<hosts, hostCount, chan, result, resultError, distSwitchesDict,
                   masterLANList, masterHostToSwitchDict, RelAddedToVMObjects, vmObject>>
    /\ UNCHANGED <<cmdOutput, ensSwitchIDList, cmdIdx, ports, vdans, vmObjectList, vDANVMList>>
    /\ UNCHANGED histVars
    /\ UNCHANGED fnVars

\* node.py:75-86  exec_command raised: get_nodes returns what it has, nothing
ExecNodeCmdExc ==
    /\ pc = "nodes"
    /\ cmdIdx <= Len(NodeCommands(ensSwitchIDList))
    /\ cmdLog' = exec_command(cmdLog, host, NodeCommands(ensSwitchIDList)[cmdIdx])
    /\ cmdFailed' = RecordFailure(host, "nodes")
    /\ pc' = "finish"
    /\ steps' = Enter(host, "nodes")
    /\ UNCHANGED <<hosts, hostCount, chan, result, resultError, distSwitchesDict,
                   masterLANList, masterHostToSwitchDict, RelAddedToVMObjects, vmObject>>
    /\ UNCHANGED <<cmdOutput, ensSwitchIDList, results, cmdIdx, ports, vdans, vmObjectList, vDANVMList>>
    /\ UNCHANGED <<connFailed, excFailed, noEns>>
    /\ UNCHANGED fnVars

\* node.py:89-188, adapter.py:414-416
NodesBuild ==
    /\ pc = "nodesBuild"
    /\ result' = add_objects(result, NodesOf(host, ensSwitchIDList, results))
    /\ pc' = "finish"
    /\ UNCHANGED <<hosts, hostCount, chan, cmdLog, steps, resultError, distSwitchesDict,
                   masterLANList, masterHostToSwitchDict, RelAddedToVMObjects, vmObject>>
    /\ UNCHANGED hostVars
    /\ UNCHANGED histVars
    /\ UNCHANGED fnVars

\* adapter.py:426
SshClose(ch, h) == [ch EXCEPT ![h] = "closed"]

\* adapter.py:419-421
VmObjectAfterPorts == IF vmObjectList # <<>> THEN Last(vmObjectList) ELSE vmObject

\* adapter.py:419-427, 432-434  the VMs are recorded, the channel is closed
FinishOK ==
    /\ pc = "finish"
    /\ LET r == AddVdanVMs(vDANVMList, 1, RelAddedToVMObjects \cup Range(vmObjectList),
                           VmObjectAfterPorts) IN
        /\ r.st = "ok"
        /\ RelAddedToVMObjects' = r.rel
    /\ vmObject' = VmObjectAfterPorts
    /\ chan' = Finally(SshClose(chan, host), host)
    /\ steps' = Leave(steps, host, "done")
    /\ pc' = "loop"
    /\ UNCHANGED <<hosts, hostCount, cmdLog, result, resultError, distSwitchesDict,
                   masterLANList, masterHostToSwitchDict>>
    /\ UNCHANGED hostVars
    /\ UNCHANGED histVars
    /\ UNCHANGED fnVars

\* adapter.py:419-425, 428-434  reading vmObject before it was ever bound
\* raises; the handler at 428 logs, finally closes
FinishExc ==
    /\ pc = "finish"
    /\ LET r == AddVdanVMs(vDANVMList, 1, RelAddedToVMObjects \cup Range(vmObjectList),
                           VmObjectAfterPorts) IN
        /\ r.st = "raise"
        /\ RelAddedToVMObjects' = r.rel
    /\ vmObject' = VmObjectAfterPorts
    /\ excFailed' = excFailed \cup {host}
    /\ chan' = Finally(chan, host)
    /\ steps' = Leave(steps, host, "failed")
    /\ pc' = "loop"
    /\ UNCHANGED <<hosts, hostCount, cmdLog, result, resultError, distSwitchesDict,
                   masterLANList, masterHostToSwitchDict>>
    /\ UNCHANGED hostVars
    /\ UNCHANGED <<connFailed, cmdFailed, noEns>>
    /\ UNCHANGED fnVars

\* The port-group objects of the inventory's VLAN map (vlan.py:36-76).
InventoryPortGroups == {Entity("portgroup", 0, <<<<"pg", 1>>, UNKNOWN>>)}

\* adapter.py:435-455  the final object set
Assemble ==
    /\ pc = "loop"
    /\ hostCount = Len(hosts)
    /\ result' = result
                 \cup {Entity("switch", 0, <<distSwitchesDict[i], UNKNOWN>>) : i \in 1..Len(distSwitchesDict)}
                 \cup Range(masterLANList)
                 \cup {Entity("host", hosts[i], <<<<"host", hosts[i]>>, UNKNOWN>>) : i \in 1..Len(hosts)}
                 \cup {Entity("vm", 0, <<v, UNKNOWN>>) : v \in RelAddedToVMObjects}
                 \cup InventoryPortGroups
    /\ pc' = "returned"
    /\ UNCHANGED <<hosts, hostCount, chan, cmdLog, steps, resultError, distSwitchesDict,
                   masterLANList, masterHostToSwitchDict, RelAddedToVMObjects, vmObject>>
    /\ UNCHANGED hostVars
    /\ UNCHANGED histVars
    /\ UNCHANGED fnVars

Next ==
    \/ GetHosts
    \/ ConnectFail
    \/ ConnectOK
    \/ ExecDiscoveryOK
    \/ ExecDiscoveryExc
    \/ ResolveNoEnsSwitches
    \/ ResolveEmptyInstanceList
    \/ ResolveHostSwitches
    \/ ExecPortCmdOK
    \/ ExecPortCmdExc
    \/ PortsBuild
    \/ ExecVdanCmdOK
    \/ ExecVdanCmdExc
    \/ VdansBuild
    \/ ExecLanCmdOK
    \/ ExecLanCmdExc
    \/ LansBuild
    \/ ExecNodeCmdOK
    \/ ExecNodeCmdNonZero
    \/ ExecNodeCmdExc
    \/ NodesBuild
    \/ FinishOK
    \/ FinishExc
    \/ Assemble

Spec == Init /\ [][Next]_vars

\* ------------------------------------------------------ get_switches
\* The sequences without repetition over the set S.
SeqsNoRep(S) ==
    {q \in UNION {[1..n -> S] : n \in 0..Cardinality(S)} :
        \A i, j \in 1..Len(q) : i # j => q[i] # q[j]}

InternalName(i) == <<"DvsPortset", i>>

\* switch.py:156-189  a record parseENSSwitchList returns
EnsRecord(i) == [name |-> InternalName(i), swID |-> i - 1]

\* switch.py:191-203  a DvsPortset header line parseDVSPortSetLine matches
DVSPortRow(i) ==
    [vSwitchName |-> InternalName(i), friendlyName |-> <<"dvs", i>>, switchUUID |-> SwitchUUID(i)]

\* The parsed switch lists a host can give: records with distinct names.
EnsSwitchLists == SeqsNoRep({EnsRecord(i) : i \in 1..MaxEnsRecords})

\* The instance list outputs a host can give: empty text, or text with the
\* header lines of some of the switches.
SwitchInstanceOutputs ==
    {[empty |-> TRUE, rows |-> <<>>]}
    \cup {[empty |-> FALSE, rows |-> q] : q \in SeqsNoRep({DVSPortRow(i) : i \in 1..MaxEnsRecords})}

\* switch.py:101-104  the locals friendlyName and switchUUID after the scan of
\* the instance rows: the last row with the name sets them, no row leaves
\* them as they were
ScanInstances(vSwitchInstances, ensSwitchName, locals) ==
    LET hit == {j \in 1..Len(vSwitchInstances) : vSwitchInstances[j].vSwitchName = ensSwitchName}
        j == CHOOSE x \in hit : \A y \in hit : y <= x
    IN  IF hit = {} THEN locals
        ELSE [friendlyName |-> vSwitchInstances[j].friendlyName,
              switchUUID |-> vSwitchInstances[j].switchUUID]

\* switch.py:101-112  before the first assignment the locals are unbound
UnboundLocals == [friendlyName |-> Unbound, switchUUID |-> Unbound]

\* switch.py:115-122  index of the first master switch with the UUID, or 0
FindMasterSwitch(masterSwitchList, switchUUID) ==
    LET hit == {i \in 1..Len(masterSwitchList) : masterSwitchList[i].switch_uuid = switchUUID}
    IN  IF hit = {} THEN 0 ELSE CHOOSE x \in hit : \A y \in hit : x <= y

\* switch.py:128-133  Switch(name, uuid, host) and its properties
NewSwitch(h, rec, locals) ==
    [uuid |-> <<rec.swID, locals.switchUUID, h>>, name |-> locals.friendlyName,
     internal_name |-> rec.name, switch_uuid |-> locals.switchUUID]

\* switch.py:71-80  the record has a name and a switch ID; <<>> is the empty
\* name
HasNameAndSwID(ensSwitch) ==
    /\ "name" \in DOMAIN ensSwitch /\ ensSwitch.name # <<>>
    /\ "swID" \in DOMAIN ensSwitch

\* switch.py:69-147  the loop over the ENS switch records.  Reading an
\* unbound local at 106 raises; the handler at 145 logs and the loop goes on.
RECURSIVE SwitchRecords(_, _, _, _, _, _, _, _)
SwitchRecords(h, ens, k, vSwitchInstances, masterSwitchList, locals, switches, edges) ==
    IF k > Len(ens) THEN [switches |-> switches, edges |-> edges]
    ELSE IF ~HasNameAndSwID(ens[k])
    THEN SwitchRecords(h, ens, k + 1, vSwitchInstances, masterSwitchList, locals, switches, edges)
    ELSE LET loc == ScanInstances(vSwitchInstances, ens[k].name, locals)
             m == FindMasterSwitch(masterSwitchList, loc.switchUUID)
             sw == NewSwitch(h, ens[k], loc)
         IN  IF loc = UnboundLocals
             THEN SwitchRecords(h, ens, k + 1, vSwitchInstances, masterSwitchList, loc,
                                switches, edges)
             ELSE IF m # 0
             THEN SwitchRecords(h, ens, k + 1, vSwitchInstances, masterSwitchList, loc,
                                switches, edges \cup {<<h, masterSwitchList[m].uuid>>})
             ELSE SwitchRecords(h, ens, k + 1, vSwitchInstances, masterSwitchList, loc,
                                Append(switches, sw), edges \cup {<<h, sw.uuid>>})

\* switch.py:36-152
get_switches(h, parsedENSSwitchList, vSwitchInstanceListCmdOutput, masterSwitchList) ==
    IF vSwitchInstanceListCmdOutput.empty THEN [switches |-> <<>>, edges |-> {}]
    ELSE SwitchRecords(h, parsedENSSwitchList, 1, vSwitchInstanceListCmdOutput.rows,
                       masterSwitchList, UnboundLocals, <<>>, {})

\* The switch UUIDs the output of a host yields: those of the header lines
\* whose internal name a switch list record of the host carries.
ReportedUUIDs(ens, out) ==
    {r.switchUUID : r \in {row \in Range(out.rows) :
                              \E i \in 1..Len(ens) : ens[i].name = row.vSwitchName}}

\* get_switches for the next host, its switches appended to the master list
GetSwitchesCall ==
    /\ swCalls < MaxHosts
    /\ \E ens \in EnsSwitchLists, out \in SwitchInstanceOutputs :
        LET h == swCalls + 1
            r == get_switches(h, ens, out, swMaster)
        IN  /\ swMaster' = swMaster \o r.switches
            /\ swEdges' = swEdges \cup r.edges
            /\ swReported' = swReported \cup {<<h, u>> : u \in ReportedUUIDs(ens, out)}
            /\ swCalls' = h
    /\ UNCHANGED <<passVars, hostVars, histVars, ndVars, vlVars, clVars, vpVars, esVars, vmVars, lnVars, nrVars, pbVars, rcVars, hjVars, ncVars>>

NextSwitches == GetSwitchesCall

SpecSwitches == Init /\ [][NextSwitches]_vars

\* --------------------------------------------------------- get_nodes
Macs == 1..MaxMacs

\* The node list outputs of a host: per switch, rows with distinct MACs.
NodeListOutputs == [1..MaxNodeSwitches -> SeqsNoRep(Macs)]

\* node.py:117-118  Node(name = mac, uuid = mac), built on host h from the
\* output of switch sw
NewNode(mac, h, sw) == [mac |-> mac, builtOn |-> <<h, sw>>]

\* node.py:107-169  the rows of one output.  acc: the nodesDict of the call,
\* the parent edges added and the MACs a Node was constructed for, in order.
RECURSIVE NodeRows(_, _, _, _, _, _)
NodeRows(h, sw, rows, j, masterNodeDict, acc) ==
    IF j > Len(rows) THEN acc
    ELSE LET mac == rows[j]
             lnode == NewNode(mac, h, sw)
         IN  IF mac \in DOMAIN masterNodeDict
             THEN NodeRows(h, sw, rows, j + 1, masterNodeDict,
                           [acc EXCEPT !.edges = @ \cup {<<masterNodeDict[mac], h>>}])
             ELSE NodeRows(h, sw, rows, j + 1, masterNodeDict,
                           [nodesDict |-> (mac :> lnode) @@ acc.nodesDict,
                            edges |-> acc.edges \cup {<<lnode, h>>},
                            built |-> Append(acc.built, mac)])

\* node.py:89-176  one output after the other
RECURSIVE get_nodes(_, _, _, _, _)
get_nodes(h, outs, i, masterNodeDict, acc) ==
    IF i > Len(outs) THEN acc
    ELSE get_nodes(h, outs, i + 1, masterNodeDict,
                   NodeRows(h, i, outs[i], 1, masterNodeDict, acc))

\* The caller's merge of a call's nodes into the master node map.
MergeNodes(masterNodeDict, nodesDict) == nodesDict @@ masterNodeDict

CountOf(q, x) == Cardinality({i \in 1..Len(q) : q[i] = x})

\* get_nodes for the next host, then the merge into the master node map
GetNodesCall ==
    /\ ndCalls < MaxHosts
    /\ \E outs \in NodeListOutputs :
        LET h == ndCalls + 1
            r == get_nodes(h, outs, 1, ndMaster, [nodesDict |-> <<>>, edges |-> {}, built |-> <<>>])
        IN  /\ ndMaster' = MergeNodes(ndMaster, r.nodesDict)
            /\ ndResult' = ndResult \cup {r.nodesDict[m] : m \in DOMAIN r.nodesDict}
            /\ ndEdges' = ndEdges \cup r.edges
            /\ ndBuilds' = [m \in Macs |-> ndBuilds[m] + CountOf(r.built, m)]
            /\ ndReported' = ndReported \cup UNION {{<<h, m>> : m \in Range(outs[i])} : i \in 1..Len(outs)}
            /\ ndCalls' = h
    /\ UNCHANGED <<passVars, hostVars, histVars, swVars, vlVars, clVars, vpVars, esVars, vmVars, lnVars, nrVars, pbVars, rcVars, hjVars, ncVars>>

NextNodes == GetNodesCall

SpecNodes == Init /\ [][NextNodes]_vars

\* --------------------------------------------------------- VLAN joins
VlanIds == 1..MaxVlans

\* The switch UUIDs of the inventory's port-groups: those of the switches of
\* the hosts and one more.
PortGroupSwitchUUIDs == {SwitchUUID(i) : i \in 1..(MaxSwitches + 1)}

\* The port-groups of the inventory: each with the UUID of its switch
\* (vlan.py:39-41) and its VLAN ID property, 0 for none (vlan.py:46-47).
PortGroupInventories == [1..MaxPortGroups -> (0..MaxVlans) \X PortGroupSwitchUUIDs]

\* vlan.py:36-76  vlansDict: VLAN ID -> the entries of the port-groups with
\* that VLAN ID, in the order of the port-groups
RECURSIVE VlanEntries(_, _, _)
VlanEntries(inv, vid, g) ==
    IF g > Len(inv) THEN <<>>
    ELSE (IF inv[g][1] = vid
          THEN <<[switchUUID |-> inv[g][2], DistPortGroupObject |-> g]>> ELSE <<>>)
         \o VlanEntries(inv, vid, g + 1)

get_vlans(inv) ==
    [vid \in {v \in VlanIds : \E g \in 1..Len(inv) : inv[g][1] = v} |-> VlanEntries(inv, vid, 1)]

\* A join that takes every port-group of the VLAN, whatever its switch.
PortGroupsOfVlan(vlansDict, vid, portSwitchUUID) ==
    IF vid \notin DOMAIN vlansDict THEN {}
    ELSE {vlansDict[vid][i].DistPortGroupObject : i \in 1..Len(vlansDict[vid])}

\* port.py:202-211  the port-groups add_port_relationships makes parents of
\* a Port: every entry of the VLAN whose switch UUID is the Port's
PortVlanParents(vlansDict, vid, portSwitchUUID) ==
    IF vid \notin DOMAIN vlansDict THEN {}
    ELSE {vlansDict[vid][i].DistPortGroupObject :
             i \in {j \in 1..Len(vlansDict[vid]) : vlansDict[vid][j].switchUUID = portSwitchUUID}}

\* node.py:190-202  add_node_vlan_relationship: the first entry of the VLAN
\* whose switch UUID is the Node's, then return
NodeVlanParents(vlansDict, nodeVLANID, hostSwitchUUID) ==
    IF nodeVLANID \notin DOMAIN vlansDict THEN {}
    ELSE LET hit == {j \in 1..Len(vlansDict[nodeVLANID]) :
                        vlansDict[nodeVLANID][j].switchUUID = hostSwitchUUID}
         IN  IF hit = {} THEN {}
             ELSE {vlansDict[nodeVLANID][CHOOSE x \in hit : \A y \in hit : x <= y].DistPortGroupObject}

\* The VLAN join of a Vdan: among the port-groups of the VLAN, the one whose
\* switch UUID is the Vdan's.
VdanVlanParents(vlansDict, vlanID, vdanSwitchUUID) ==
    IF vlanID \notin DOMAIN vlansDict THEN {}
    ELSE LET hit == {j \in 1..Len(vlansDict[vlanID]) :
                        vlansDict[vlanID][j].switchUUID = vdanSwitchUUID}
         IN  IF hit = {} THEN {}
             ELSE {vlansDict[vlanID][CHOOSE x \in hit : \A y \in hit : x <= y].DistPortGroupObject}

\* The owning switch UUID of an entity: that of a switch, or UNKNOWN
\* (port.py:100-103, node.py:104-106).
OwningSwitchUUIDs == PortGroupSwitchUUIDs \cup {UNKNOWN}

GetVlans ==
    /\ vlPc = "start"
    /\ \E inv \in PortGroupInventories : vlDict' = get_vlans(inv)
    /\ vlPc' = "joins"
    /\ UNCHANGED <<vlEntity, vlParents>>
    /\ UNCHANGED <<passVars, hostVars, histVars, swVars, ndVars, clVars, vpVars, esVars, vmVars, lnVars, nrVars, pbVars, rcVars, hjVars, ncVars>>

PortJoin ==
    /\ vlPc = "joins"
    /\ \E vid \in VlanIds, uuid \in OwningSwitchUUIDs :
        /\ vlEntity' = [kind |-> "port", vlan |-> vid, switchUUID |-> uuid]
        /\ vlParents' = PortVlanParents(vlDict, vid, uuid)
    /\ UNCHANGED <<vlPc, vlDict>>
    /\ UNCHANGED <<passVars, hostVars, histVars, swVars, ndVars, clVars, vpVars, esVars, vmVars, lnVars, nrVars, pbVars, rcVars, hjVars, ncVars>>

NodeJoin ==
    /\ vlPc = "joins"
    /\ \E vid \in VlanIds, uuid \in OwningSwitchUUIDs :
        /\ vlEntity' = [kind |-> "node", vlan |-> vid, switchUUID |-> uuid]
        /\ vlParents' = NodeVlanParents(vlDict, vid, uuid)
    /\ UNCHANGED <<vlPc, vlDict>>
    /\ UNCHANGED <<passVars, hostVars, histVars, swVars, ndVars, clVars, vpVars, esVars, vmVars, lnVars, nrVars, pbVars, rcVars, hjVars, ncVars>>

VdanJoin ==
    /\ vlPc = "joins"
    /\ \E vid \in VlanIds, uuid \in OwningSwitchUUIDs :
        /\ vlEntity' = [kind |-> "vdan", vlan |-> vid, switchUUID |-> uuid]
        /\ vlParents' = VdanVlanParents(vlDict, vid, uuid)
    /\ UNCHANGED <<vlPc, vlDict>>
    /\ UNCHANGED <<passVars, hostVars, histVars, swVars, ndVars, clVars, vpVars, esVars, vmVars, lnVars, nrVars, pbVars, rcVars, hjVars, ncVars>>

NextVlan ==
    \/ GetVlans
    \/ PortJoin
    \/ NodeJoin
    \/ VdanJoin

SpecVlan == Init /\ [][NextVlan]_vars

\* ------------------------------------------- the collection functions
\* get_ports, get_vdans, get_lans and get_nodes, each called for one host
\* with the responses of the channel to its commands, the host-to-switch map
\* and, for get_nodes, the Vdans of the host.  The VLAN map and the master
\* node map are empty in these calls.
CollectHost == 1

\* The ensSwitchIDList of the host.
CollectIdLists == {SeqOfRange(1, n) : n \in 1..MaxCollectSwitches}

RowSeqs(rowSet) == UNION {[1..n -> rowSet] : n \in 0..MaxRows}

\* The response of the channel to one command: exec_command raised, or the
\* command returned an exit status and an output of rows.
Responses(rowSet) ==
    {[raised |-> TRUE, exit |-> 0, rows |-> <<>>]}
    \cup {[raised |-> FALSE, exit |-> x, rows |-> q] : x \in ExitStatuses, q \in RowSeqs(rowSet)}

\* An entry of a host's switch table.
SwitchEntry(id) ==
    [switchID |-> id, switchUUID |-> SwitchUUID(id), friendlyName |-> <<"dvs", id>>]

\* The host-to-switch maps handed to a call: without an entry for the host,
\* or with a table that resolves some of the switch IDs.
HostSwitchMaps ==
    {<<>>}
    \cup {[hh \in {CollectHost} |-> q] :
             q \in {t \in SeqsNoRep({SwitchEntry(i) : i \in 1..MaxCollectSwitches}) :
                       \A a, b \in 1..Len(t) : a < b => t[a].switchID < t[b].switchID}}

\* port.py:65-87, vdan.py:64-86, lan.py:68-90  results: the outputs of the
\* commands that returned, whatever their exit status, in order
RECURSIVE CommandResults(_, _)
CommandResults(resp, k) ==
    IF k > Len(resp) THEN <<>>
    ELSE (IF resp[k].raised THEN <<>> ELSE <<resp[k].rows>>) \o CommandResults(resp, k + 1)

\* A PortID block of a latency dump: with its metric lines, without any line
\* after the PortID (port.py:109, 163), or with fewer lines than port.py:116-119
\* index (IndexError, port.py:165).
PortBlocks == {[kind |-> k] : k \in {"ok", "oneline", "truncated"}}

\* port.py:114-162  Port(name, uuid, host) and its switch properties
NewPort(h, swID, j, lk) ==
    [kind |-> "port", host |-> h, switch_id |-> swID, id |-> j,
     switch_uuid |-> lk.uuid, switch_name |-> lk.name]

\* port.py:104-169  the Ports of the blocks of one dump
PortsOfBlocks(h, swID, lk, blocks) ==
    {NewPort(h, swID, j, lk) : j \in {x \in 1..Len(blocks) : blocks[x].kind = "ok"}}

\* port.py:42-178
get_ports(h, ids, resp, hostToSwitch) ==
    LET res == CommandResults(resp, 1) IN
    IF h \notin DOMAIN hostToSwitch THEN [st |-> "raise", objects |-> {}]
    ELSE IF Len(res) # Len(resp) THEN [st |-> "ok", objects |-> {}]
    ELSE [st |-> "ok",
          objects |-> UNION {PortsOfBlocks(h, ids[i], HostSwitchLookup(hostToSwitch[h], ids[i]), res[i]) :
                                i \in 1..Len(ids)}]

\* A line of a vdan list: one the LanA pattern matches, or another line.
VdanLines == {[kind |-> k] : k \in {"lanA", "other"}}

\* vdan.py:108-155  vDAN(name, uuid, host), its "mac" property and its switch
\* properties
NewVdan(h, swID, j, lk) ==
    [kind |-> "vdan", host |-> h, switch_id |-> swID, id |-> j, mac |-> j,
     switch_uuid |-> lk.uuid, switch_name |-> lk.name]

\* vdan.py:104-157  the Vdans of the records of one output
VdansOfLines(h, swID, lk, lines) ==
    {NewVdan(h, swID, j, lk) : j \in {x \in 1..Len(lines) : lines[x].kind = "lanA"}}

\* vdan.py:43-167
get_vdans(h, ids, resp, hostToSwitch) ==
    LET res == CommandResults(resp, 1) IN
    IF h \notin DOMAIN hostToSwitch THEN [st |-> "raise", objects |-> {}]
    ELSE IF Len(res) # Len(resp) THEN [st |-> "ok", objects |-> {}]
    ELSE [st |-> "ok",
          objects |-> UNION {VdansOfLines(h, ids[i], HostSwitchLookup(hostToSwitch[h], ids[i]), res[i]) :
                                i \in 1..Len(ids)}]

\* A Lan section of a PRP config output: with a status field or without.
LanSections == {[kind |-> k] : k \in {"status", "nostatus"}}

\* lan.py:183-217  parse_lan_output of the config output of switch id: the
\* switch ID and the Lan names, each with the fields found for it
ParsedLanOutput(id, rows) ==
    [switchID |-> id,
     lans |-> [j \in 1..Len(rows) |-> [name |-> <<"Lan", j>>, hasStatus |-> rows[j].kind = "status"]]]

\* A Switch object of the master switch list.
MasterSwitch(i) == [tag |-> "obj", switch_uuid |-> SwitchUUID(i), name |-> <<"dvs", i>>]

\* The master switch lists handed to get_lans.
MasterSwitchLists == {[i \in 1..n |-> MasterSwitch(i)] : n \in 0..MaxCollectSwitches}

\* lan.py:47-180  the lookup of the host's table at 65, the commands, then
\* the outputs one after the other
LanCollection(h, ids, resp, hostToSwitch, masterSwitchList, masterLAN) ==
    LET res == CommandResults(resp, 1) IN
    IF h \notin DOMAIN hostToSwitch THEN [st |-> "raise", objects |-> {}]
    ELSE IF Len(res) # Len(resp) THEN [st |-> "ok", objects |-> {}]
    ELSE [st |-> "ok",
          objects |-> Range(get_lans(h, [i \in 1..Len(ids) |-> ParsedLanOutput(ids[i], res[i])], 1,
                                     hostToSwitch[h], masterSwitchList, masterLAN))]

\* A row of a node list after the two header lines: a full row with a VDAN
\* MAC (0: blank), a row whose first column is no number (node.py:109, 172),
\* or a row with an index and a MAC but fewer columns than node.py:120-151
\* index (IndexError, node.py:176).
NodeListRowSet ==
    {[kind |-> "ok", vdanMac |-> v] : v \in 0..MaxRows}
    \cup {[kind |-> k, vdanMac |-> 0] : k \in {"noindex", "short"}}

\* The Vdans of the host handed to get_nodes, as get_vdans built them.
HostVdanLists ==
    {[j \in 1..n |-> NewVdan(CollectHost, 1, j, HostSwitchLookup(<<SwitchEntry(1)>>, 1))] : n \in 0..MaxRows}

\* Object.get_property(key): the properties of the object with that key
get_property(obj, key) == IF key \in DOMAIN obj THEN <<obj[key]>> ELSE <<>>

\* node.py:204-212  the Vdan the Node is made a child of; "raise": element 0
\* of an empty property list
RECURSIVE add_node_vdan_relationship(_, _, _)
add_node_vdan_relationship(nodeVDANMac, hostVDANSList, k) ==
    IF k > Len(hostVDANSList) THEN [st |-> "ok", parents |-> {}]
    ELSE LET prop == get_property(hostVDANSList[k], "mac_address") IN
         IF prop = <<>> THEN [st |-> "raise", parents |-> {}]
         ELSE IF prop[1] = nodeVDANMac THEN [st |-> "ok", parents |-> {hostVDANSList[k]}]
         ELSE add_node_vdan_relationship(nodeVDANMac, hostVDANSList, k + 1)

\* node.py:117-157  Node(name = mac, uuid = mac), its properties and parents;
\* hostSwitchUUID is the switch UUID its VLAN join is run with (93-103, 157)
NodeObject(h, mac, vdanMac, hostSwitchUUID, parents) ==
    [kind |-> "node", host |-> h, mac |-> mac, vdan_mac |-> vdanMac,
     hostSwitchUUID |-> hostSwitchUUID, parents |-> parents]

\* node.py:105-173  the rows of the output of the i-th switch; an exception
\* in a row leaves the loop (the handler at 176 is outside of it)
RECURSIVE NodeListRows(_, _, _, _, _, _, _)
NodeListRows(h, i, lk, rows, j, hostVDANSList, acc) ==
    IF j > Len(rows) THEN acc
    ELSE LET row == rows[j]
             mac == (i - 1) * MaxRows + j
             rel == IF row.vdanMac = 0 THEN [st |-> "ok", parents |-> {}]
                    ELSE add_node_vdan_relationship(row.vdanMac, hostVDANSList, 1)
         IN  IF row.kind = "noindex" THEN NodeListRows(h, i, lk, rows, j + 1, hostVDANSList, acc)
             ELSE IF row.kind = "short" \/ rel.st = "raise" THEN acc
             ELSE NodeListRows(h, i, lk, rows, j + 1, hostVDANSList,
                               acc \cup {NodeObject(h, mac, row.vdanMac, lk.uuid, rel.parents)})

\* node.py:39-188  the lookup of the host's table at 52; the first command
\* that raises or returns a non-zero exit status ends the call (74-86)
NodeCollection(h, ids, resp, hostToSwitch, hostVDANSList) ==
    IF h \notin DOMAIN hostToSwitch THEN [st |-> "raise", objects |-> {}]
    ELSE IF \E k \in 1..Len(resp) : resp[k].raised \/ resp[k].exit # 0
    THEN [st |-> "ok", objects |-> {}]
    ELSE [st |-> "ok",
          objects |-> UNION {NodeListRows(h, i, HostSwitchLookup(hostToSwitch[h], ids[i]),
                                          resp[i].rows, 1, hostVDANSList, {}) : i \in 1..Len(ids)}]

\* What the called function returns.
Collect(call) ==
    CASE call.fn = "ports" -> get_ports(CollectHost, call.ids, call.resp, call.map)
      [] call.fn = "vdans" -> get_vdans(CollectHost, call.ids, call.resp, call.map)
      [] call.fn = "lans" -> LanCollection(CollectHost, call.ids, call.resp, call.map, call.master, <<>>)
      [] call.fn = "nodes" -> NodeCollection(CollectHost, call.ids, call.resp, call.map, call.vdans)

Call(fn, ids, resp, map, master, vdanList) ==
    [fn |-> fn, ids |-> ids, resp |-> resp, map |-> map, master |-> master, vdans |-> vdanList]

\* port.py:65-70  the response to each command in the order of issue: a dump
\* is answered with the dump of its switch, a clear with no blocks
PortResponses(ids, dump, clear) ==
    LET cmds == PortCommands(ids) IN
    [k \in 1..Len(cmds) |->
        IF cmds[k].cmd = "ens latency system dump"
        THEN dump[CHOOSE i \in 1..Len(ids) : ids[i] = cmds[k].sw]
        ELSE clear[CHOOSE i \in 1..Len(ids) : ids[i] = cmds[k].sw]]

CollectPorts ==
    /\ clCall.fn = "none"
    /\ \E ids \in CollectIdLists, m \in HostSwitchMaps :
        \E dump \in [1..Len(ids) -> Responses(PortBlocks)], clear \in [1..Len(ids) -> Responses({})] :
            /\ clCall' = Call("ports", ids, PortResponses(ids, dump, clear), m, <<>>, <<>>)
            /\ clOut' = Collect(clCall')
    /\ UNCHANGED <<passVars, hostVars, histVars, swVars, ndVars, vlVars, vpVars, esVars, vmVars, lnVars, nrVars, pbVars, rcVars, hjVars, ncVars>>

CollectVdans ==
    /\ clCall.fn = "none"
    /\ \E ids \in CollectIdLists, m \in HostSwitchMaps :
        \E resp \in [1..Len(ids) -> Responses(VdanLines)] :
            /\ clCall' = Call("vdans", ids, resp, m, <<>>, <<>>)
            /\ clOut' = Collect(clCall')
    /\ UNCHANGED <<passVars, hostVars, histVars, swVars, ndVars, vlVars, vpVars, esVars, vmVars, lnVars, nrVars, pbVars, rcVars, hjVars, ncVars>>

CollectLans ==
    /\ clCall.fn = "none"
    /\ \E ids \in CollectIdLists, m \in HostSwitchMaps, master \in MasterSwitchLists :
        \E resp \in [1..Len(ids) -> Responses(LanSections)] :
            /\ clCall' = Call("lans", ids, resp, m, master, <<>>)
            /\ clOut' = Collect(clCall')
    /\ UNCHANGED <<passVars, hostVars, histVars, swVars, ndVars, vlVars, vpVars, esVars, vmVars, lnVars, nrVars, pbVars, rcVars, hjVars, ncVars>>

CollectNodes ==
    /\ clCall.fn = "none"
    /\ \E ids \in CollectIdLists, m \in HostSwitchMaps, vl \in HostVdanLists :
        \E resp \in [1..Len(ids) -> Responses(NodeListRowSet)] :
            /\ clCall' = Call("nodes", ids, resp, m, <<>>, vl)
            /\ clOut' = Collect(clCall')
    /\ UNCHANGED <<passVars, hostVars, histVars, swVars, ndVars, vlVars, vpVars, esVars, vmVars, lnVars, nrVars, pbVars, rcVars, hjVars, ncVars>>

NextCollect ==
    \/ CollectPorts
    \/ CollectVdans
    \/ CollectLans
    \/ CollectNodes

SpecCollect == Init /\ [][NextCollect]_vars

\* ------------------------------------------------- parse_vdan_output
\* The five counters of a LanA or LanB line.
CountersA == <<10, 20, 30, 40, 50>>

VdanCounters == {<<1, 2, 3, 4, 5>>, <<6, 7, 8, 9, 10>>}

\* No lanB key in the record.
NoLanB == <<>>

\* A line the main pattern matches (vdan.py:174-176): index, MAC, VLAN ID,
\* FC port, age, "lanA" and five counters.
LanALine(index, mac) ==
    [kind |-> "lanA", vdanIndex |-> index, mac |-> mac, vlanID |-> 204, fcPortID |-> 0,
     vDANAge |-> 9999, counters |-> CountersA]

\* A line the lanB pattern matches (vdan.py:179-181).
LanBLine(counters) == [kind |-> "lanB", counters |-> counters]

\* The lines of a vdan list: LanA lines, LanB lines, and lines that are
\* blank, a separator, the total, or match neither pattern (vdan.py:187-191).
VdanTextLines ==
    {LanALine(x, m) : x \in VdanIndexes, m \in {"aa:bb:cc:dd:ee:ff", "aa:bb:cc:dd:ee:00"}}
    \cup {LanBLine(c) : c \in VdanCounters}
    \cup {[kind |-> "other"]}

VdanTexts == UNION {[1..n -> VdanTextLines] : n \in 0..MaxLines}

\* vdan.py:196-211  the record appended for a LanA line
VdanRecord(line) ==
    [vdanIndex |-> line.vdanIndex, mac |-> line.mac, vlanID |-> line.vlanID,
     fcPortID |-> line.fcPortID, vDANAge |-> line.vDANAge, lanA |-> line.counters,
     lanB |-> NoLanB]

\* vdan.py:183  current_common before the first LanA line
NoCommon == 0

\* vdan.py:215-223  key["lanB"] is set on every record of the list whose
\* vdanIndex is that of current_common
SetLanB(recs, index, counters) ==
    [k \in 1..Len(recs) |->
        IF recs[k].vdanIndex = index THEN [recs[k] EXCEPT !.lanB = counters] ELSE recs[k]]

\* vdan.py:185-223  the lines one after the other.  "raise": the read of
\* current_common["vdanIndex"] at 216 while current_common is empty.
RECURSIVE VdanLinesFrom(_, _, _, _)
VdanLinesFrom(lines, k, recs, current_common) ==
    IF k > Len(lines) THEN [st |-> "ok", vdans |-> recs]
    ELSE IF lines[k].kind = "lanA"
    THEN VdanLinesFrom(lines, k + 1, Append(recs, VdanRecord(lines[k])), lines[k].vdanIndex)
    ELSE IF lines[k].kind = "lanB"
    THEN IF recs = <<>> THEN VdanLinesFrom(lines, k + 1, recs, current_common)
         ELSE IF current_common = NoCommon THEN [st |-> "raise", vdans |-> recs]
         ELSE VdanLinesFrom(lines, k + 1, SetLanB(recs, current_common, lines[k].counters),
                            current_common)
    ELSE VdanLinesFrom(lines, k + 1, recs, current_common)

\* vdan.py:169-224
parse_vdan_output(text) == VdanLinesFrom(text, 1, <<>>, NoCommon)

ParseVdanOutput ==
    /\ vpOut.st = "none"
    /\ \E text \in VdanTexts :
        /\ vpText' = text
        /\ vpOut' = parse_vdan_output(text)
    /\ UNCHANGED <<passVars, hostVars, histVars, swVars, ndVars, vlVars, clVars, esVars, vmVars, lnVars, nrVars, pbVars, rcVars, hjVars, ncVars>>

NextVdanParse == ParseVdanOutput

SpecVdanParse == Init /\ [][NextVdanParse]_vars

\* ------------------------------------------------- parseENSSwitchList
\* int() of a token of decimal digits
RECURSIVE int(_)
int(digits) ==
    IF digits = <<>> THEN 0 ELSE int(SubSeq(digits, 1, Len(digits) - 1)) * 10 + Last(digits)

\* A line the row grammar matches (switch.py:163-172): the name and the
\* lcore IDs as text, every number as its token of digits.
EnsRow(name, swID) ==
    [kind |-> "row", name |-> name, swID |-> swID, maxPorts |-> <<5, 1, 2>>,
     numActivePorts |-> <<1, 0>>, numPorts |-> <<1, 0>>, mtu |-> <<1, 5, 0, 0>>,
     numLcores |-> <<4>>, lcoreIDs |-> "0 1 2 3"]

\* The data lines of a switch list: rows, blank lines and lines the row
\* grammar does not match.
EnsDataLineSet ==
    {EnsRow("ens-dvs0", <<1, 2, 3>>), EnsRow("ens-dvs1", <<0, 7>>),
     [kind |-> "blank"], [kind |-> "other"]}

\* The texts of a switch list: blank lines, the header line, the separator
\* line, the data lines.
EnsTexts ==
    {[k \in 1..lead |-> [kind |-> "blank"]] \o <<[kind |-> "header"], [kind |-> "separator"]>> \o data :
        lead \in 0..1, data \in UNION {[1..n -> EnsDataLineSet] : n \in 0..MaxEnsLines}}

\* str.strip(): the text without its leading and trailing blank lines
RECURSIVE strip(_)
strip(lines) ==
    IF lines = <<>> THEN lines
    ELSE IF lines[1].kind = "blank" THEN strip(Tail(lines))
    ELSE IF Last(lines).kind = "blank" THEN strip(SubSeq(lines, 1, Len(lines) - 1))
    ELSE lines

\* switch.py:177-187  the entry of a matched line
EnsEntry(line) ==
    [name |-> line.name, swID |-> int(line.swID), maxPorts |-> int(line.maxPorts),
     numActivePorts |-> int(line.numActivePorts), numPorts |-> int(line.numPorts),
     mtu |-> int(line.mtu), numLcores |-> int(line.numLcores), lcoreIDs |-> line.lcoreIDs]

\* A loop over the data lines that ends at the first line without a match.
RECURSIVE EnsEntriesUntilMismatch(_, _)
EnsEntriesUntilMismatch(data_lines, k) ==
    IF k > Len(data_lines) \/ data_lines[k].kind # "row" THEN <<>>
    ELSE <<EnsEntry(data_lines[k])>> \o EnsEntriesUntilMismatch(data_lines, k + 1)

\* switch.py:174-188  the loop over the data lines: a matched line appends
\* its entry, any other line is passed over
RECURSIVE EnsEntries(_, _)
EnsEntries(data_lines, k) ==
    IF k > Len(data_lines) THEN <<>>
    ELSE (IF data_lines[k].kind = "row" THEN <<EnsEntry(data_lines[k])>> ELSE <<>>)
         \o EnsEntries(data_lines, k + 1)

\* switch.py:156-189  lines[2:] of the stripped text, then the loop
parseENSSwitchList(ensSwitchListCmdOutput) ==
    LET lines == strip(ensSwitchListCmdOutput)
        data_lines == SubSeq(lines, 3, Len(lines))
    IN  [st |-> "ok", ensSwitchList |-> EnsEntries(data_lines, 1)]

ParseENSSwitchList ==
    /\ esOut.st = "none"
    /\ \E text \in EnsTexts :
        /\ esText' = text
        /\ esOut' = parseENSSwitchList(text)
    /\ UNCHANGED <<passVars, hostVars, histVars, swVars, ndVars, vlVars, clVars, vpVars, vmVars, lnVars, nrVars, pbVars, rcVars, hjVars, ncVars>>

NextEnsParse == ParseENSSwitchList

SpecEnsParse == Init /\ [][NextEnsParse]_vars

\* ------------------------------------------------------- the VM join
\* get_vm_moid returned None (port.py:302).
NoMOID == 0

\* A VM object of vmsByName[vmName]: the i-th of that name, with its
\* VMEntityObjectID identifier.
VmCandidate(i) == [name |-> "vm", VMEntityObjectID |-> i]

\* vm.py:35-36  vmsByName.get(vmName): no VM, one VM or several VMs of the name
VmCandidateLists == {[i \in 1..n |-> VmCandidate(i)] : n \in 0..MaxCandidates}

\* The VM resources of that name in the inventory, each with the MAC of its
\* NIC and its MOID; "fails": the REST call raised.
VmInventories ==
    {[fails |-> TRUE, resources |-> <<>>]}
    \cup {[fails |-> FALSE, resources |-> q] :
             q \in UNION {[1..n -> [mac : 1..MaxMacs, MOID : 1..(MaxCandidates + 1)]] : n \in 0..2}}

\* port.py:269-302  the MOID of the first resource whose MAC property has
\* the value of the NIC MAC, None when there is none or the call raised
get_vm_moid(inventory, vmNICMacaddress) ==
    LET hit == {k \in 1..Len(inventory.resources) : inventory.resources[k].mac = vmNICMacaddress}
    IN  IF inventory.fails \/ hit = {} THEN NoMOID
        ELSE inventory.resources[CHOOSE x \in hit : \A y \in hit : x <= y].MOID

\* A join that takes the first candidate of the name whenever there is one.
FirstCandidate(vms, inventory, mac) == IF Len(vms) = 0 THEN {} ELSE {vms[1]}

\* port.py:233-250  the VMs add_port_relationships makes parents of the Port
PortVmParents(vms, inventory, mac) ==
    IF Len(vms) = 0 THEN {}
    ELSE IF Len(vms) = 1 THEN {vms[1]}
    ELSE {vms[i] : i \in {j \in 1..Len(vms) :
                             vms[j].VMEntityObjectID = get_vm_moid(inventory, mac)}}

\* vdan.py:234-251  the VMs add_vdan_vm_relationship makes parents of the
\* Vdan; getVMMOID is get_vm_moid of port.py
VdanVmParents(vms, inventory, mac) ==
    IF Len(vms) = 0 THEN {}
    ELSE IF Len(vms) = 1 THEN {vms[1]}
    ELSE {vms[i] : i \in {j \in 1..Len(vms) :
                             vms[j].VMEntityObjectID = get_vm_moid(inventory, mac)}}

\* port.py:228-252  a Port whose client name gave a VM name
PortVmJoin ==
    /\ vmCall.kind = "none"
    /\ \E vms \in VmCandidateLists, inv \in VmInventories, mac \in 1..MaxMacs :
        /\ vmCall' = [kind |-> "port", vms |-> vms, inventory |-> inv, mac |-> mac]
        /\ vmOut' = [st |-> "ok", parents |-> PortVmParents(vms, inv, mac)]
    /\ UNCHANGED <<passVars, hostVars, histVars, swVars, ndVars, vlVars, clVars, vpVars, esVars, lnVars, nrVars, pbVars, rcVars, hjVars, ncVars>>

\* vdan.py:229-254  a Vdan whose MAC is in vmMacNameDict
VdanVmJoin ==
    /\ vmCall.kind = "none"
    /\ \E vms \in VmCandidateLists, inv \in VmInventories, mac \in 1..MaxMacs :
        /\ vmCall' = [kind |-> "vdan", vms |-> vms, inventory |-> inv, mac |-> mac]
        /\ vmOut' = [st |-> "ok", parents |-> VdanVmParents(vms, inv, mac)]
    /\ UNCHANGED <<passVars, hostVars, histVars, swVars, ndVars, vlVars, clVars, vpVars, esVars, lnVars, nrVars, pbVars, rcVars, hjVars, ncVars>>

NextVmJoin ==
    \/ PortVmJoin
    \/ VdanVmJoin

SpecVmJoin == Init /\ [][NextVmJoin]_vars

\* ------------------------------------------- the master LAN list of a pass
\* adapter.py:276, 280, 410-412: the distributed switches of the inventory are
\* fetched once, then every host's get_lans result is appended to
\* masterLANList before the next host is visited.

\* adapter.py:276, 436  distSwitchesDict: a dict keyed by switch UUID
LanInventories == {[i \in 1..n |-> SwitchUUID(i)] : n \in 0..MaxCollectSwitches}

\* The host's entry of masterHostToSwitchDict (adapter.py:389-394).
LanHostTables == {m[CollectHost] : m \in HostSwitchMaps \ {<<>>}}

\* The responses to the config commands: exec_command raised, or an output.
LanResponses == {r \in Responses(LanSections) : r.exit = 0}

\* lan.py:63-176 as adapter.py:410 calls it: the dict itself is handed to the
\* masterSwitchList parameter
HostLans(h, ids, resp, hostSwitchList, dict, masterLAN) ==
    LET res == CommandResults(resp, 1) IN
    IF Len(res) # Len(resp) THEN <<>>
    ELSE get_lans(h, [i \in 1..Len(ids) |-> ParsedLanOutput(ids[i], res[i])], 1,
                  hostSwitchList, IterDict(dict), masterLAN)

\* The <<switch UUID, Lan name>> pairs the outputs of a host carry with a
\* status field, for the switch IDs the host's table resolves.
LanPairsReported(ids, resp, hostSwitchList) ==
    LET res == CommandResults(resp, 1) IN
    IF Len(res) # Len(resp) THEN {}
    ELSE UNION {{<<HostSwitchLookup(hostSwitchList, ids[i]).uuid, <<"Lan", j>>>> :
                    j \in {x \in 1..Len(res[i]) : res[i][x].kind = "status"}} :
                i \in {x \in 1..Len(ids) : HostSwitchLookup(hostSwitchList, ids[x]).found}}

\* adapter.py:276
LanGetSwitches ==
    /\ lnPc = "start"
    /\ \E d \in LanInventories : lnDict' = d
    /\ lnPc' = "hosts"
    /\ UNCHANGED <<lnMaster, lnReported, lnCall, lnCount>>
    /\ UNCHANGED <<passVars, hostVars, histVars, swVars, ndVars, vlVars, clVars, vpVars, esVars, vmVars, nrVars, pbVars, rcVars, hjVars, ncVars>>

\* adapter.py:410-412
LanHost ==
    /\ lnPc = "hosts"
    /\ lnCount < MaxLanHosts
    /\ \E ids \in CollectIdLists, t \in LanHostTables :
        \E resp \in [1..Len(ids) -> LanResponses] :
            LET h == lnCount + 1
                lans == HostLans(h, ids, resp, t, lnDict, lnMaster)
            IN  /\ lnMaster' = lnMaster \o lans
                /\ lnReported' = lnReported \cup LanPairsReported(ids, resp, t)
                /\ lnCall' = [host |-> h, ids |-> ids, resp |-> resp, table |-> t, lans |-> lans]
                /\ lnCount' = h
    /\ UNCHANGED <<lnPc, lnDict>>
    /\ UNCHANGED <<passVars, hostVars, histVars, swVars, ndVars, vlVars, clVars, vpVars, esVars, vmVars, nrVars, pbVars, rcVars, hjVars, ncVars>>

NextLans ==
    \/ LanGetSwitches
    \/ LanHost

SpecLans == Init /\ [][NextLans]_vars

\* --------------------------------------------------- a row of a node list
\* node.py:107-173: one line of a node list, split into columns, and the Node
\* built from it (masterNodeDict holds no Node of that MAC, no VLAN or Vdan
\* join is made here).

\* The non-blank tokens of a line: a number, or another word.
RowTokens == {"7", "x"}

\* The lines: tokens separated by white space, with or without white space
\* before the first and after the last token.
NodeListLines ==
    {[st |-> "line", leading |-> l, tokens |-> t, trailing |-> r] :
        l \in BOOLEAN, r \in BOOLEAN, t \in UNION {[1..n -> RowTokens] : n \in 0..MaxColumns}}

\* node.py:108  re.split("\s+", line): white space at either end of the line
\* leaves an empty string at that end of the list
re_split(line) ==
    IF line.tokens = <<>> /\ ~line.leading /\ ~line.trailing THEN <<"">>
    ELSE IF line.tokens = <<>> THEN <<"", "">>
    ELSE (IF line.leading THEN <<"">> ELSE <<>>) \o line.tokens
         \o (IF line.trailing THEN <<"">> ELSE <<>>)

\* str.isnumeric
isnumeric(t) == t = "7"

\* node.py:119-142  the column each property is read from
NodePropertyColumns ==
    {<<"vlan_id", 2>>, <<"type", 3>>, <<"redbox_mac", 4>>, <<"current_lcore", 5>>, <<"vdan_mac", 6>>}

\* node.py:143-154  the column each metric is read from
NodeMetricColumns == {<<"sup_seq_a", 9>>, <<"sup_seq_b", 11>>, <<"node_age", 13>>}

\* The highest column index the construction of a Node reads (node.py:151).
LastNodeColumn == 13

\* node.py:109-173  one iteration of the row loop. "skip": no Node for the
\* row; "raise": IndexError for a column the row does not have; "node": the
\* Node with the properties and metrics set on it, as <<name, value>> pairs
NodeOfRow(columns) ==
    LET col(k) == columns[k + 1] IN
    IF ~(col(0) # "" /\ isnumeric(col(0))) THEN [st |-> "skip", props |-> {}, metrics |-> {}]
    ELSE IF Len(columns) < 2 THEN [st |-> "raise", props |-> {}, metrics |-> {}]
    ELSE IF col(1) = "" THEN [st |-> "skip", props |-> {}, metrics |-> {}]
    ELSE IF Len(columns) < LastNodeColumn + 1 THEN [st |-> "raise", props |-> {}, metrics |-> {}]
    ELSE [st |-> "node",
          props |-> {<<"mac", col(1)>>} \cup {<<f[1], col(f[2])>> : f \in NodePropertyColumns},
          metrics |-> {<<f[1], IF col(f[2]) # "" /\ isnumeric(col(f[2])) THEN 7 ELSE 0>> :
                          f \in NodeMetricColumns}]

ParseNodeRow ==
    /\ nrLine.st = "none"
    /\ \E line \in NodeListLines :
        /\ nrLine' = line
        /\ nrOut' = NodeOfRow(re_split(line))
    /\ UNCHANGED <<passVars, hostVars, histVars, swVars, ndVars, vlVars, clVars, vpVars, esVars, vmVars, lnVars, pbVars, rcVars, hjVars, ncVars>>

NextNodeRow == ParseNodeRow

SpecNodeRow == Init /\ [][NextNodeRow]_vars

\* ------------------------------------------------ a block of a latency dump
\* port.py:104-167: the text after one "PortID:" of a dump, split into lines,
\* and the Port built from it.

\* A metric line: a label, then up to MaxValues values (tx, rx), with or
\* without white space after the last token.
MetricLines ==
    {[st |-> "line", leading |-> FALSE, tokens |-> t, trailing |-> r] :
        r \in BOOLEAN,
        t \in {<<>>} \cup {<<"label">> \o [i \in 1..n |-> "7"] : n \in 0..MaxValues}}

\* The blocks: lines[0] starts with the port ID or with white space, lines[1]
\* is the column header, lines[2..5] are the metric lines; a block may end
\* after any of its lines.
PortIDBlocks ==
    {[st |-> "block", portID |-> id, header |-> h, metric |-> m] :
        id \in {"", "p"}, h \in BOOLEAN,
        m \in UNION {[1..n -> MetricLines] : n \in 0..4}}

\* port.py:106  len(lines)
BlockLen(block) == 1 + (IF block.header THEN 1 + Len(block.metric) ELSE 0)

\* port.py:114-117  the metric line each pair of metrics is read from
\* (index into lines[2..5]) and port.py:119-151 the column of each metric
PortMetricColumns ==
    {<<"tx_total_samples", 1, 1>>, <<"tx_min_latency", 2, 1>>, <<"tx_max_latency", 3, 1>>,
     <<"tx_mean", 4, 1>>, <<"rx_total_samples", 1, 2>>, <<"rx_min_latency", 2, 2>>,
     <<"rx_max_latency", 3, 2>>, <<"rx_mean", 4, 2>>}

\* port.py:105-165  one iteration of the block loop. "skip": no Port for the
\* block (108, 163); "raise": IndexError for a line or a column the block
\* does not have, caught at 164; "port": the Port and the metrics set on it
PortOfBlock(block) ==
    IF ~(BlockLen(block) > 1) THEN [st |-> "skip", metrics |-> {}]
    ELSE IF block.portID = "" THEN [st |-> "skip", metrics |-> {}]
    ELSE IF Len(block.metric) < 4 THEN [st |-> "raise", metrics |-> {}]
    ELSE LET columns == [k \in 1..4 |-> re_split(block.metric[k])] IN
         IF \E f \in PortMetricColumns : Len(columns[f[2]]) < f[3] + 1
         THEN [st |-> "raise", metrics |-> {}]
         ELSE [st |-> "port",
               metrics |-> {<<f[1], columns[f[2]][f[3] + 1]>> :
                              f \in {g \in PortMetricColumns : columns[g[2]][g[3] + 1] # ""}}]

ParsePortBlock ==
    /\ pbBlock.st = "none"
    /\ \E block \in PortIDBlocks :
        /\ (~block.header => block.metric = <<>>)
        /\ pbBlock' = block
        /\ pbOut' = PortOfBlock(block)
    /\ UNCHANGED <<passVars, hostVars, histVars, swVars, ndVars, vlVars, clVars, vpVars, esVars, vmVars, lnVars, nrVars, rcVars, hjVars, ncVars>>

NextPortBlock == ParsePortBlock

SpecPortBlock == Init /\ [][NextPortBlock]_vars

\* ------------------------------------------- records without an identity
\* The parsing loops over the records of one output: the rows of a node list
\* (node.py:105-178), the PortID blocks of a dump (port.py:104-166), the
\* config outputs of a host (lan.py:93-172) and the records of a switch list
\* (switch.py:69-147).

\* The lines of a node list: a full row, a row that ends after the index, a
\* row with white space and nothing else after the index, an empty line.
FullRow == [st |-> "line", leading |-> FALSE, trailing |-> FALSE,
            tokens |-> [k \in 1..(LastNodeColumn + 1) |-> IF k = 2 THEN "x" ELSE "7"]]

IdentityRows ==
    {FullRow,
     [st |-> "line", leading |-> FALSE, trailing |-> FALSE, tokens |-> <<"7">>],
     [st |-> "line", leading |-> FALSE, trailing |-> TRUE, tokens |-> <<"7">>],
     [st |-> "line", leading |-> FALSE, trailing |-> FALSE, tokens |-> <<>>]}

\* node.py:107-178  the outcome of each row the loop got to: an exception in
\* a row is handled at 176, outside of the loop
RECURSIVE NodeRowOutcomes(_, _)
NodeRowOutcomes(node_results, j) ==
    IF j > Len(node_results) THEN <<>>
    ELSE LET o == NodeOfRow(re_split(node_results[j])) IN
         IF o.st = "raise" THEN <<o.st>>
         ELSE <<o.st>> \o NodeRowOutcomes(node_results, j + 1)

\* The PortID blocks: a full block with or without a port ID, a block of
\* one line.
FullMetricLine == [st |-> "line", leading |-> FALSE, trailing |-> FALSE, tokens |-> <<"label", "7", "7">>]

IdentityBlocks ==
    {[st |-> "block", portID |-> id, header |-> TRUE, metric |-> [k \in 1..4 |-> FullMetricLine]] :
        id \in {"", "p"}}
    \cup {[st |-> "block", portID |-> "p", header |-> FALSE, metric |-> <<>>]}

\* port.py:104-166  the outcome of each block: the handler at 164 is inside
\* of the loop
PortBlockOutcomes(port_results) == [k \in 1..Len(port_results) |-> PortOfBlock(port_results[k]).st]

\* lan.py:183-217  the parsed config output of switch i: with its switch ID
\* or without (0), and a LanA section with a status
IdentityLanOutputs(i) ==
    {[switchID |-> id, lans |-> <<[name |-> <<"Lan", 1>>, hasStatus |-> TRUE]>>] : id \in {0, i}}

\* lan.py:93-172  the Lans of the outputs of a host whose table and whose
\* master switch list hold every switch
IdentityLans(outs) ==
    get_lans(CollectHost, outs, 1, [i \in 1..Len(outs) |-> SwitchEntry(i)],
             [i \in 1..Len(outs) |-> MasterSwitch(i)], <<>>)

\* The records of a switch list: with name and switch ID, with an empty
\* name, without a switch ID.
IdentitySwitchRecords(i) ==
    {EnsRecord(i), [name |-> <<>>, swID |-> i - 1], [name |-> InternalName(i)]}

\* switch.py:36-152  the Switches of a host whose instance list has the
\* header line of every switch
IdentitySwitches(ens) ==
    get_switches(CollectHost, ens, [empty |-> FALSE, rows |-> [i \in 1..Len(ens) |-> DVSPortRow(i)]],
                 <<>>).switches

NodeRowsLoop ==
    /\ rcCall.fn = "none"
    /\ \E rows \in UNION {[1..n -> IdentityRows] : n \in 0..MaxRecords} :
        /\ rcCall' = [fn |-> "nodes", records |-> rows]
        /\ rcOut' = NodeRowOutcomes(rows, 1)
    /\ UNCHANGED <<passVars, hostVars, histVars, swVars, ndVars, vlVars, clVars, vpVars, esVars, vmVars, lnVars, nrVars, pbVars, hjVars, ncVars>>

PortBlocksLoop ==
    /\ rcCall.fn = "none"
    /\ \E blocks \in UNION {[1..n -> IdentityBlocks] : n \in 0..MaxRecords} :
        /\ rcCall' = [fn |-> "ports", records |-> blocks]
        /\ rcOut' = PortBlockOutcomes(blocks)
    /\ UNCHANGED <<passVars, hostVars, histVars, swVars, ndVars, vlVars, clVars, vpVars, esVars, vmVars, lnVars, nrVars, pbVars, hjVars, ncVars>>

LanOutputsLoop ==
    /\ rcCall.fn = "none"
    /\ \E n \in 0..MaxRecords :
        \E outs \in {q \in [1..n -> UNION {IdentityLanOutputs(i) : i \in 1..n}] :
                        \A i \in 1..n : q[i] \in IdentityLanOutputs(i)} :
            /\ rcCall' = [fn |-> "lans", records |-> outs]
            /\ rcOut' = IdentityLans(outs)
    /\ UNCHANGED <<passVars, hostVars, histVars, swVars, ndVars, vlVars, clVars, vpVars, esVars, vmVars, lnVars, nrVars, pbVars, hjVars, ncVars>>

SwitchRecordsLoop ==
    /\ rcCall.fn = "none"
    /\ \E n \in 0..MaxRecords :
        \E ens \in {q \in [1..n -> UNION {IdentitySwitchRecords(i) : i \in 1..n}] :
                       \A i \in 1..n : q[i] \in IdentitySwitchRecords(i)} :
            /\ rcCall' = [fn |-> "switches", records |-> ens]
            /\ rcOut' = IdentitySwitches(ens)
    /\ UNCHANGED <<passVars, hostVars, histVars, swVars, ndVars, vlVars, clVars, vpVars, esVars, vmVars, lnVars, nrVars, pbVars, hjVars, ncVars>>

NextRecords ==
    \/ NodeRowsLoop
    \/ PortBlocksLoop
    \/ LanOutputsLoop
    \/ SwitchRecordsLoop

SpecRecords == Init /\ [][NextRecords]_vars

\* ------------------------------------------------- the joins of one host
\* adapter.py:397-427: the VM lookup of the host, the Ports, Vdans and Nodes
\* added to the result, their VM and VLAN joins, and the VMs recorded at the
\* end.  The instance list of the host has one port row: port number 1, MAC 1,
\* VLAN 1, a client name that gives the VM name; the Vdan has MAC 1 and VLAN
\* 1, the Node VLAN 1; the switch of the host is switch 1.

\* vm.py:13-40  vmsByName of the host: the VMs of the one VM name, none when
\* the call raised or returned nothing
HostJoinVms == VmCandidateLists

HostJoinInventories ==
    {[fails |-> TRUE, resources |-> <<>>]}
    \cup {[fails |-> FALSE, resources |-> <<[mac |-> 1, MOID |-> m]>>] : m \in 1..2}

\* vlan.py:22-83  vlansDict: empty when the call raised or returned nothing,
\* or with one port-group
HostJoinVlanMaps ==
    {get_vlans(<<>>)} \cup {get_vlans(<<<<v, u>>>>) : v \in VlanIds, u \in PortGroupSwitchUUIDs}

\* The VM object as the adapter's lists hold it.
HostVm(vm) == <<"vm", vm.VMEntityObjectID>>

\* The elements of a set, one after the other.
RECURSIVE SeqOfSet(_)
SeqOfSet(S) ==
    IF S = {} THEN <<>>
    ELSE LET x == CHOOSE y \in S : TRUE IN <<x>> \o SeqOfSet(S \ {x})

\* An entity of the host in the result, with the parents the joins gave it.
Joined(kind, id, vmParents, pgParents) ==
    [kind |-> kind, id |-> id, vmParents |-> vmParents, pgParents |-> pgParents]

\* adapter.py:397-427
HostJoins(call) ==
    LET port == 1 \in call.ports
        \* port.py:186, 228-232  vmMacNameDict, filled only when the host has Ports
        vmMacNameDict == IF call.ports # {} THEN {1} ELSE {}
        \* port.py:233-250  vms = vmsByName.get(vmName); no join without vms or port
        portVms == IF port THEN {HostVm(v) : v \in PortVmParents(call.vms, call.inventory, 1)} ELSE {}
        \* port.py:201-212
        portPgs == IF port THEN PortVlanParents(call.vlansDict, 1, SwitchUUID(1)) ELSE {}
        \* adapter.py:401  vmObjectList
        portVmList == SeqOfSet(portVms)
        \* vdan.py:226-256
        vdanVms == IF call.vdans # {} /\ 1 \in vmMacNameDict
                   THEN {HostVm(v) : v \in VdanVmParents(call.vms, call.inventory, 1)} ELSE {}
        \* adapter.py:406  vDANVMList
        vdanVmList == SeqOfSet(vdanVms)
        \* adapter.py:419-425
        fin == AddVdanVMs(vdanVmList, 1, call.rel \cup Range(portVmList),
                          IF portVmList # <<>> THEN Last(portVmList) ELSE call.vmObject)
    IN  [st |-> fin.st,
         result |-> {Joined("port", p, IF p = 1 THEN portVms ELSE {}, IF p = 1 THEN portPgs ELSE {}) :
                        p \in call.ports}
                    \cup {Joined("vdan", d, vdanVms, VdanVlanParents(call.vlansDict, 1, SwitchUUID(1))) :
                             d \in call.vdans}
                    \cup {Joined("node", n, {}, NodeVlanParents(call.vlansDict, 1, SwitchUUID(1))) :
                             n \in call.nodes},
         rel |-> fin.rel]

CollectHostJoins ==
    /\ hjCall.st = "none"
    /\ \E vms \in HostJoinVms, inv \in HostJoinInventories, vl \in HostJoinVlanMaps,
          ps \in SUBSET {1, 2}, ds \in SUBSET {1}, ns \in SUBSET {1},
          vmo \in {Unbound, <<"vm", 0>>} :
        /\ hjCall' = [st |-> "call", vms |-> vms, inventory |-> inv, vlansDict |-> vl,
                      ports |-> ps, vdans |-> ds, nodes |-> ns, vmObject |-> vmo,
                      rel |-> IF vmo = Unbound THEN {} ELSE {vmo}]
        /\ hjOut' = HostJoins(hjCall')
    /\ UNCHANGED <<passVars, hostVars, histVars, swVars, ndVars, vlVars, clVars, vpVars, esVars, vmVars, lnVars, nrVars, pbVars, rcVars, ncVars>>

NextHostJoins == CollectHostJoins

SpecHostJoins == Init /\ [][NextHostJoins]_vars

\* ------------------------------------------------- observations of a pass
EntitiesOf(h) == {e \in result : e.host = h /\ e.kind \in CollectedKinds}

\* The loop has left host h behind.
Finished(h) == h < hostCount \/ (h = hostCount /\ pc \in {"loop", "returned"})

FullSequence == <<"connect", "discover", "resolve", "ports", "vdans", "lans", "nodes", "done">>

ShortSequence == <<"connect", "discover", "done">>

\* The steps of FullSequence before "done", in that order, up to some step,
\* then possibly the end of the host as done or failed.
InStepOrder(st) ==
    \E k \in 0..(Len(FullSequence) - 1) :
        \/ st = SubSeq(FullSequence, 1, k)
        \/ st = Append(SubSeq(FullSequence, 1, k), "done")
        \/ st = Append(SubSeq(FullSequence, 1, k), "failed")

CmdRank(c) ==
    CASE c.cmd = "ens switch list" -> 1
      [] c.cmd = "vswitch instance list" -> 2
      [] c.cmd = "ens latency system dump" -> 3
      [] c.cmd = "ens latency system clear" -> 4
      [] c.cmd = "ens prp stats vdan list" -> 5
      [] c.cmd = "get ens prp config" -> 6
      [] c.cmd = "ens prp node list" -> 7

\* Nothing of host h is in a master collection.
NotInMasters(h) ==
    /\ h \notin DOMAIN masterHostToSwitchDict
    /\ \A m \in Range(masterLANList) : m.host # h

\* ---------------------------------------------------------------- C1
\* C1: a switch UUID that two or more hosts reported has exactly one Switch
\* entity with that switch_uuid in the master list, and every host that
\* reported it has a Host-Switch edge to that entity.
C1_OneSwitchPerUUID ==
    \A u \in {p[2] : p \in swReported} :
        LET hs == {p[1] : p \in {q \in swReported : q[2] = u}}
            ents == {i \in 1..Len(swMaster) : swMaster[i].switch_uuid = u}
        IN  Cardinality(hs) >= 2 =>
                /\ Cardinality(ents) = 1
                /\ \A h \in hs, i \in ents : <<h, swMaster[i].uuid>> \in swEdges

\* ---------------------------------------------------------------- C2
\* C2: after two or more hosts, a MAC that every host reported has exactly
\* one Node entity in the merged result, a Node was constructed for it
\* once, and the entity has a Host edge for every host.
C2_OneNodePerMac ==
    \A m \in Macs :
        (ndCalls >= 2 /\ \A h \in 1..ndCalls : <<h, m>> \in ndReported) =>
            /\ m \in DOMAIN ndMaster
            /\ Cardinality({e \in ndResult : e.mac = m}) = 1
            /\ ndBuilds[m] = 1
            /\ \A h \in 1..ndCalls : <<ndMaster[m], h>> \in ndEdges

\* ---------------------------------------------------------------- C3
Retained ==
    /\ result \subseteq result'
    /\ RelAddedToVMObjects \subseteq RelAddedToVMObjects'
    /\ Len(masterLANList) <= Len(masterLANList')
    /\ \A i \in 1..Len(masterLANList) : masterLANList'[i] = masterLANList[i]
    /\ \A k \in DOMAIN masterHostToSwitchDict :
        k \in DOMAIN masterHostToSwitchDict' /\ masterHostToSwitchDict'[k] = masterHostToSwitchDict[k]

\* A host stops short of the full sequence only for a cause of its own.
StopsForOwnCause(h) ==
    \/ steps[h] = FullSequence
    \/ steps[h] = ShortSequence
    \/ h \in connFailed
    \/ h \in excFailed
    \/ <<h, "discover">> \in cmdFailed

\* C3: whatever a host put into the result set or a master collection stays
\* there through every later step of the pass, the steps of a host on which
\* a command raised included, and is in the final result; a host whose port
\* or VDAN command raised still has its switch table in the master map at
\* the end, and every host after it is taken through its own steps.
C3_FailureKeepsEarlierEntities ==
    [][/\ Retained
       /\ (pc' = "returned" /\ hosts' # <<>>) =>
            /\ hostCount' = Len(hosts')
            /\ Range(masterLANList') \subseteq result'
            /\ \A h \in 1..Len(hosts') :
                /\ StopsForOwnCause(h)'
                /\ (<<h, "ports">> \in cmdFailed' \/ <<h, "vdans">> \in cmdFailed') =>
                       h \in DOMAIN masterHostToSwitchDict']_vars

C3_Witness ==
    /\ pc = "returned"
    /\ Len(hosts) = 3
    /\ <<2, "ports">> \in cmdFailed
    /\ \E e \in result : e.kind = "port" /\ e.host = 1
    /\ \E e \in result : e.kind = "node" /\ e.host = 1
    /\ 2 \in DOMAIN masterHostToSwitchDict
    /\ steps[3] = FullSequence
    /\ \E e \in result : e.kind = "vdan" /\ e.host = 3

\* ---------------------------------------------------------------- C4
\* C4: once exec_command has raised on a host, no further command is issued
\* to that host.
C4_NoCommandAfterFailure ==
    [][\A h \in FailedHosts : cmdLog'[h] = cmdLog[h]]_vars

\* ---------------------------------------------------------------- C5
\* C5: every port-group the VLAN join made a parent of a Port, Node or Vdan
\* with VLAN V and owning switch UUID S is listed under V in the VLAN map
\* with switch UUID S, and is not listed there with another switch UUID or
\* under another VLAN only.
C5_VlanJoinMatchesSwitch ==
    vlEntity.kind # "none" =>
        \A g \in vlParents :
            /\ vlEntity.vlan \in DOMAIN vlDict
            /\ \E i \in 1..Len(vlDict[vlEntity.vlan]) :
                /\ vlDict[vlEntity.vlan][i].DistPortGroupObject = g
                /\ vlDict[vlEntity.vlan][i].switchUUID = vlEntity.switchUUID
            /\ \A v \in DOMAIN vlDict : \A i \in 1..Len(vlDict[v]) :
                   vlDict[v][i].DistPortGroupObject = g =>
                       v = vlEntity.vlan /\ vlDict[v][i].switchUUID = vlEntity.switchUUID

\* A Port with VLAN 1 on switch 1; of the port-groups of VLAN 1 on switch 1,
\* of VLAN 1 on switch 2 and of VLAN 2 on switch 1 only the first is its
\* parent.
C5_Witness ==
    /\ vlEntity = [kind |-> "port", vlan |-> 1, switchUUID |-> SwitchUUID(1)]
    /\ 1 \in DOMAIN vlDict /\ 2 \in DOMAIN vlDict
    /\ \E i \in 1..Len(vlDict[1]) : vlDict[1][i].switchUUID = SwitchUUID(2)
    /\ \E i \in 1..Len(vlDict[2]) : vlDict[2][i].switchUUID = SwitchUUID(1)
    /\ Cardinality(vlParents) = 1

\* ---------------------------------------------------------------- C6
\* C6: a host whose connection failed gets no command and no channel, has no
\* entity in the result set and none in a master collection, sets no
\* top-level error, and the pass still visits every host after it.
C6_ConnectFailureIsolated ==
    \A h \in connFailed :
        /\ cmdLog[h] = <<>>
        /\ chan[h] = "none"
        /\ EntitiesOf(h) = {}
        /\ NotInMasters(h)
        /\ steps[h] = <<"connect", "failed">>
        /\ ~resultError
        /\ h = hostCount => pc \in {"loop", "returned"}
        /\ pc = "returned" => hostCount = Len(hosts)

C6_Witness ==
    /\ pc = "returned"
    /\ Len(hosts) = 3
    /\ 2 \in connFailed
    /\ \E e \in result : e.kind = "port" /\ e.host = 1
    /\ \E e \in result : e.kind = "port" /\ e.host = 3

\* ---------------------------------------------------------------- C7
\* C7: when get_hosts returns no host, collect returns at once: no channel
\* was opened, no command issued, the result holds no object and carries
\* the top-level error.
C7_NoHostsEndsImmediately ==
    (pc # "start" /\ hosts = <<>>) =>
        /\ pc = "returned"
        /\ resultError
        /\ result = {}
        /\ \A h \in HostIds : cmdLog[h] = <<>> /\ steps[h] = <<>> /\ chan[h] = "none"

C7_Witness == pc = "returned" /\ hosts = <<>> /\ resultError /\ result = {}

\* ---------------------------------------------------------------- C8
\* C8: a host whose switch list gave no ENS switch record gets no command
\* after the two discovery commands, puts no entity into the result set or
\* a master collection, sets no error, and (unless its second discovery
\* command raised) is done right after discovery.
C8_NoEnsSwitchesDone ==
    \A h \in noEns :
        /\ Len(cmdLog[h]) <= Len(DiscoveryCommands)
        /\ \A i \in 1..Len(cmdLog[h]) : cmdLog[h][i] = DiscoveryCommands[i]
        /\ EntitiesOf(h) = {}
        /\ NotInMasters(h)
        /\ ~resultError
        /\ h \notin excFailed
        /\ h = hostCount => pc \in {"discover", "resolve", "loop", "returned"}
        /\ (Finished(h) /\ h \notin FailedHosts) =>
               steps[h] = ShortSequence /\ Len(cmdLog[h]) = Len(DiscoveryCommands)

C8_Witness ==
    /\ pc = "returned"
    /\ Len(hosts) = 3
    /\ 2 \in noEns
    /\ 2 \notin FailedHosts
    /\ steps[2] = ShortSequence
    /\ Len(cmdLog[2]) = 2
    /\ \E e \in result : e.kind = "port" /\ e.host = 1
    /\ \E e \in result : e.kind = "port" /\ e.host = 3

\* ---------------------------------------------------------------- C9
\* C9: the steps of a host come in the order connect, discovery (switch
\* list, then instance list), resolution, ports, VDANs, LANs, nodes, done,
\* a host that is done having gone through all of them or, with no switch
\* to collect from, from discovery straight to done; and a host has no step
\* and no command before every host before it is done or failed.
C9_StepOrder ==
    \A h \in HostIds :
        /\ InStepOrder(steps[h])
        /\ \A i \in 1..(Len(cmdLog[h]) - 1) : CmdRank(cmdLog[h][i]) <= CmdRank(cmdLog[h][i + 1])
        /\ Len(cmdLog[h]) >= 1 => cmdLog[h][1].cmd = "ens switch list"
        /\ Len(cmdLog[h]) >= 2 => cmdLog[h][2].cmd = "vswitch instance list"
        /\ (steps[h] # <<>> /\ Last(steps[h]) = "done") => steps[h] \in {FullSequence, ShortSequence}
        /\ (steps[h] # <<>> \/ cmdLog[h] # <<>>) =>
               /\ h <= hostCount
               /\ \A g \in 1..(h - 1) : steps[g] # <<>> /\ Last(steps[g]) \in {"done", "failed"}
        /\ (steps[h] # <<>> /\ Last(steps[h]) \in {"done", "failed"}) => Finished(h)

C9_Witness ==
    /\ pc = "returned"
    /\ Len(hosts) = 3
    /\ \A h \in 1..3 : steps[h] = FullSequence /\ Len(cmdLog[h]) = 7

\* --------------------------------------------------------------- C10
\* C10: a channel is open only for the host the loop is at and only while
\* that host is being collected: it is closed when the loop turns to the
\* next host and when the final object set is assembled.
C10_ChannelClosed ==
    \A h \in HostIds :
        chan[h] = "open" => h = hostCount /\ pc \notin {"start", "loop", "returned"}

C10_Witness ==
    /\ pc = "returned"
    /\ Len(hosts) = 3
    /\ steps[1] = FullSequence
    /\ 2 \in excFailed
    /\ <<3, "discover">> \in cmdFailed
    /\ \A h \in 1..3 : chan[h] = "closed"

\* --------------------------------------------------------------- C11
\* C11: within one pass no command is issued twice to the same host, a
\* command that raised or timed out included.
C11_NoCommandTwice ==
    \A h \in HostIds :
        \A i, j \in 1..Len(cmdLog[h]) : i # j => cmdLog[h][i] # cmdLog[h][j]

\* The first port command of host 1 raised, the host got all seven commands.
C11_Witness ==
    /\ pc = "returned"
    /\ <<1, "ports">> \in cmdFailed
    /\ Len(cmdLog[1]) = 7
    /\ cmdLog[1][3] = Cmd("ens latency system dump", 1)

\* --------------------------------------------------------------- C12
\* The call with every exit status set to 0.
ZeroExits(call) ==
    [call EXCEPT !.resp = [k \in 1..Len(call.resp) |-> [call.resp[k] EXCEPT !.exit = 0]]]

\* C12: in every collection step a non-zero exit status of a command does
\* not by itself discard its output: the call builds the entities it would
\* have built had every command returned exit status 0.
C12_NonZeroExitKeepsOutput ==
    clCall.fn # "none" => clOut = Collect(ZeroExits(clCall))

\* --------------------------------------------------------------- C13
\* Every command of the call returned with exit status 0.
AllReturnedZero(call) ==
    \A k \in 1..Len(call.resp) : ~call.resp[k].raised /\ call.resp[k].exit = 0

\* The object built for row j of the output of the i-th switch.
BuiltFor(call, objs, i, j) ==
    \E e \in objs :
        IF call.fn = "ports" THEN e.switch_id = call.ids[i] /\ e.id = j
        ELSE e.mac = (i - 1) * MaxRows + j

\* C13: a malformed row or block of a command output makes only that record
\* be skipped: every well-formed PortID block of a latency dump and every
\* well-formed row of a node list (here: of a host without Vdans) yields its
\* entity, whatever malformed records precede it in the same output.
C13_MalformedRowSkipsOnlyItself ==
    (/\ clCall.fn \in {"ports", "nodes"}
     /\ clCall.vdans = <<>>
     /\ clOut.st = "ok"
     /\ AllReturnedZero(clCall)) =>
        \A i \in 1..Len(clCall.ids) : \A j \in 1..Len(clCall.resp[i].rows) :
            clCall.resp[i].rows[j].kind = "ok" => BuiltFor(clCall, clOut.objects, i, j)

\* --------------------------------------------------------------- C14
\* The positions of the LanA lines of the text, in order.
LanAPositions(text) == {p \in 1..Len(text) : text[p].kind = "lanA"}

\* The LanB lines that belong to the LanA line at p: those after p with no
\* LanA line in between.
LanBAfter(text, p) ==
    {q \in (p + 1)..Len(text) :
        text[q].kind = "lanB" /\ \A r \in (p + 1)..q : text[r].kind # "lanA"}

\* C14: parse_vdan_output never raises; it returns one record for each LanA
\* line, in the order of the lines, with the fields and lanA counters of
\* that line; the record carries the lanB counters of the last LanB line
\* that follows its LanA line before the next LanA line, and none when
\* there is no such line; a LanB line before any LanA line changes nothing.
C14_VdanParse ==
    vpOut.st # "none" =>
        /\ vpOut.st = "ok"
        /\ Len(vpOut.vdans) = Cardinality(LanAPositions(vpText))
        /\ \A p \in LanAPositions(vpText) :
            LET n == Cardinality({x \in LanAPositions(vpText) : x <= p})
                b == LanBAfter(vpText, p)
                rec == vpOut.vdans[n]
            IN  /\ [rec EXCEPT !.lanB = NoLanB] = VdanRecord(vpText[p])
                /\ rec.lanB = IF b = {} THEN NoLanB
                              ELSE vpText[CHOOSE q \in b : \A r \in b : r <= q].counters

\* --------------------------------------------------------------- C15
\* The positions of the lines of the text after the separator line that the
\* row grammar matches.
EnsRowPositions(text) ==
    {p \in 1..Len(text) :
        /\ text[p].kind = "row"
        /\ \E q \in 1..(p - 1) : text[q].kind = "separator"}

\* C15: parseENSSwitchList does not raise and returns, in the order of the
\* lines, one record for each data line that matches the row grammar, with
\* the name, switch ID, port counts, MTU, lcore count and lcore IDs of that
\* line, whatever blank or non-matching lines stand among the data lines;
\* the row ens-dvs0 123 512 10 10 1500 4 "0 1 2 3" yields exactly these values.
C15_EnsSwitchListParse ==
    esOut.st # "none" =>
        /\ esOut.st = "ok"
        /\ Len(esOut.ensSwitchList) = Cardinality(EnsRowPositions(esText))
        /\ \A p \in EnsRowPositions(esText) :
            LET rec == esOut.ensSwitchList[Cardinality({x \in EnsRowPositions(esText) : x <= p})]
            IN  /\ rec.name = esText[p].name
                /\ rec.swID = int(esText[p].swID)
                /\ rec.lcoreIDs = esText[p].lcoreIDs
                /\ <<rec.maxPorts, rec.numActivePorts, rec.numPorts, rec.mtu, rec.numLcores>>
                       = <<int(esText[p].maxPorts), int(esText[p].numActivePorts),
                           int(esText[p].numPorts), int(esText[p].mtu), int(esText[p].numLcores)>>
                /\ esText[p].name = "ens-dvs0" =>
                       rec = [name |-> "ens-dvs0", swID |-> 123, maxPorts |-> 512,
                              numActivePorts |-> 10, numPorts |-> 10, mtu |-> 1500,
                              numLcores |-> 4, lcoreIDs |-> "0 1 2 3"]

\* A leading blank line, then header and separator, a non-matching line, the
\* row of ens-dvs0, a blank line and the row of ens-dvs1: two records.
C15_Witness ==
    /\ Len(esText) = 6
    /\ esText[1].kind = "blank"
    /\ esText[4].kind = "other"
    /\ esText[5] = EnsRow("ens-dvs0", <<1, 2, 3>>)
    /\ esText[6].kind = "row"
    /\ Len(esOut.ensSwitchList) = 2
    /\ esOut.ensSwitchList[1].swID = 123
    /\ esOut.ensSwitchList[2].swID = 7

\* --------------------------------------------------------------- C16
\* C16: a Port or Vdan with a resolved VM name gets, with exactly one VM of
\* that name, that VM as parent; with several, only the candidate whose
\* VMEntityObjectID is the ID the inventory returns for the MAC, and none
\* when no candidate has it or the lookup returns nothing; with no VM of
\* that name, no VM parent; the join does not raise.
C16_VmJoin ==
    vmCall.kind # "none" =>
        LET vms == vmCall.vms
            moid == get_vm_moid(vmCall.inventory, vmCall.mac)
        IN  /\ vmOut.st = "ok"
            /\ Len(vms) = 0 => vmOut.parents = {}
            /\ Len(vms) = 1 => vmOut.parents = {vms[1]}
            /\ Len(vms) > 1 =>
                /\ \A v \in vmOut.parents : v \in Range(vms) /\ v.VMEntityObjectID = moid
                /\ \A v \in Range(vms) : v.VMEntityObjectID = moid => v \in vmOut.parents
                /\ moid = NoMOID => vmOut.parents = {}
                /\ Cardinality(vmOut.parents) <= 1

\* A Vdan with three VMs of its name, the inventory naming the second.
C16_Witness ==
    /\ vmCall.kind = "vdan"
    /\ Len(vmCall.vms) = 3
    /\ get_vm_moid(vmCall.inventory, vmCall.mac) = 2
    /\ vmOut.parents = {VmCandidate(2)}

\* --------------------------------------------------------------- C17
\* The host's switch table does not resolve the i-th switch ID of the call.
Unresolved(call, i) == ~HostSwitchLookup(call.map[CollectHost], call.ids[i]).found

\* C17: a Lan section with a status field, or a node row, of a switch whose
\* ID the host's switch table does not resolve still yields its entity, with
\* the switch UUID "UNKNOWN" (the Lan in its identity, the Node as the switch
\* of its VLAN join).
C17_UnresolvedSwitchStillEmitted ==
    (/\ clCall.fn \in {"lans", "nodes"}
     /\ clCall.vdans = <<>>
     /\ clOut.st = "ok"
     /\ AllReturnedZero(clCall)) =>
        \A i \in 1..Len(clCall.ids) : \A j \in 1..Len(clCall.resp[i].rows) :
            Unresolved(clCall, i) =>
                /\ (clCall.fn = "lans" /\ clCall.resp[i].rows[j].kind = "status") =>
                       \E e \in clOut.objects : e.key = <<UNKNOWN, <<"Lan", j>>>>
                /\ (clCall.fn = "nodes" /\ \A r \in 1..j : clCall.resp[i].rows[r].kind = "ok") =>
                       \E e \in clOut.objects :
                           e.mac = (i - 1) * MaxRows + j /\ e.hostSwitchUUID = UNKNOWN

\* --------------------------------------------------------------- C18
\* The entities of the call that were built from the output of its i-th switch.
BuiltForSwitch(call, objs, i) ==
    CASE call.fn \in {"ports", "vdans"} -> {e \in objs : e.switch_id = call.ids[i]}
      [] call.fn = "nodes" -> {e \in objs : e.mac \in ((i - 1) * MaxRows + 1)..(i * MaxRows)}
      [] call.fn = "lans" -> {}

\* C18: the lookup of a switch ID in the host-to-switch map never makes the
\* collection step fail, neither when the host's switch table lacks the ID
\* nor when the map has no entry for the host; the entities built for an
\* unresolved switch ID carry "UNKNOWN" as switch UUID and switch name.
C18_UnresolvedSwitchNeverFails ==
    clCall.fn # "none" =>
        /\ clOut.st = "ok"
        /\ \A i \in 1..Len(clCall.ids) :
            Unresolved(clCall, i) =>
                \A e \in BuiltForSwitch(clCall, clOut.objects, i) :
                    IF clCall.fn = "nodes" THEN e.hostSwitchUUID = UNKNOWN
                    ELSE e.switch_uuid = UNKNOWN /\ e.switch_name = UNKNOWN

\* --------------------------------------------------------------- C19
\* C19: after any sequence of hosts, for every <<switch UUID, Lan name>> pair
\* that some host reported with a status field and whose switch UUID is a
\* distributed switch of the inventory, the master LAN list holds exactly one
\* Lan entity, the one of that switch; a pair reported again adds no second.
C19_OneLanPerSwitchAndName ==
    \A pair \in lnReported :
        pair[1] \in Range(lnDict) =>
            Cardinality({k \in 1..Len(lnMaster) : lnMaster[k].key = pair}) = 1

\* --------------------------------------------------------------- C20
\* The Vdans of the host whose MAC is the VDAN MAC of a node-list row.
VdansWithMac(call, v) == {call.vdans[k] : k \in {x \in 1..Len(call.vdans) : call.vdans[x].mac = v}}

\* C20: a newly built Node whose VDAN MAC is the MAC of a Vdan collected on
\* the same host is emitted with that Vdan as a parent; a Node whose VDAN MAC
\* is the MAC of no collected Vdan is emitted without a Vdan parent, and the
\* rows after it are processed (here: in outputs all of whose rows have the
\* columns a Node is built from).
C20_NodeVdanParent ==
    (/\ clCall.fn = "nodes"
     /\ clOut.st = "ok"
     /\ AllReturnedZero(clCall)
     /\ \A i \in 1..Len(clCall.ids) : \A j \in 1..Len(clCall.resp[i].rows) :
            clCall.resp[i].rows[j].kind # "short")
    => \A i \in 1..Len(clCall.ids) : \A j \in 1..Len(clCall.resp[i].rows) :
           LET row == clCall.resp[i].rows[j] IN
           (row.kind = "ok" /\ row.vdanMac # 0) =>
               \E e \in clOut.objects :
                   /\ e.mac = (i - 1) * MaxRows + j
                   /\ e.parents = VdansWithMac(clCall, row.vdanMac)

\* --------------------------------------------------------------- C21
\* The fields of a row that are absent or blank: the line has no column of
\* that index, or the column is the empty string.
BlankColumn(columns, k) == Len(columns) < k + 1 \/ columns[k + 1] = ""

\* C21: on the Node built from a valid row, no property and no metric is set
\* for a field that is absent or blank in the row, neither to the empty
\* string nor to zero.
C21_BlankFieldOmitted ==
    nrOut.st = "node" =>
        LET columns == re_split(nrLine) IN
        /\ \A f \in NodePropertyColumns :
               BlankColumn(columns, f[2]) => ~\E p \in nrOut.props : p[1] = f[1]
        /\ \A f \in NodeMetricColumns :
               BlankColumn(columns, f[2]) => ~\E p \in nrOut.metrics : p[1] = f[1]

\* --------------------------------------------------------------- C22
\* The value of a tx/rx field of a block: "" when the metric line has no
\* such column or the column is empty.
MetricField(block, f) ==
    LET columns == re_split(block.metric[f[2]]) IN
    IF Len(columns) < f[3] + 1 THEN "" ELSE columns[f[3] + 1]

\* C22: for a PortID block with a port ID and its four metric lines, the
\* Port is emitted; a tx/rx metric whose field is missing or empty is not
\* emitted on it, every other metric is, and no metric is set to zero.
C22_MissingMetricOmitted ==
    (pbBlock.st = "block" /\ pbBlock.portID # "" /\ Len(pbBlock.metric) = 4) =>
        /\ pbOut.st = "port"
        /\ \A f \in PortMetricColumns :
            IF MetricField(pbBlock, f) = ""
            THEN ~\E m \in pbOut.metrics : m[1] = f[1]
            ELSE <<f[1], MetricField(pbBlock, f)>> \in pbOut.metrics
        /\ \A m \in pbOut.metrics : m[2] # "0"

\* --------------------------------------------------------------- C23
\* C23: a record without its identity field yields no entity (a row with no
\* MAC no Node, a block with an empty port ID no Port, an output with no
\* switch ID no Lan, a switch-list record with no name or no switch ID no
\* Switch), and every other record of the same output yields its entity.
C23_NoEntityWithoutIdentity ==
    /\ rcCall.fn = "nodes" =>
         \A j \in 1..Len(rcCall.records) :
             IF rcCall.records[j] = FullRow
             THEN j <= Len(rcOut) /\ rcOut[j] = "node"
             ELSE j <= Len(rcOut) => rcOut[j] # "node"
    /\ rcCall.fn = "ports" =>
         \A k \in 1..Len(rcCall.records) :
             rcOut[k] = "port" <=> (rcCall.records[k].portID # "" /\ rcCall.records[k].header)
    /\ rcCall.fn = "lans" =>
         \A i \in 1..Len(rcCall.records) :
             (rcCall.records[i].switchID # 0)
                <=> \E k \in 1..Len(rcOut) : rcOut[k].key = <<SwitchUUID(i), <<"Lan", 1>>>>
    /\ rcCall.fn = "switches" =>
         \A i \in 1..Len(rcCall.records) :
             HasNameAndSwID(rcCall.records[i])
                <=> \E k \in 1..Len(rcOut) : rcOut[k].switch_uuid = SwitchUUID(i)

\* --------------------------------------------------------------- C24
\* C24: when the VM lookup of a host or the VLAN map is empty, every Port,
\* Vdan and Node built for the host is in the result, without a VM parent
\* (VM lookup empty) respectively without a port-group parent (VLAN map
\* empty), and the host does not fail.
C24_EmptyInventoryKeepsEntities ==
    (hjCall.st = "call" /\ (hjCall.vms = <<>> \/ hjCall.vlansDict = <<>>)) =>
        /\ \A p \in hjCall.ports : \E e \in hjOut.result : e.kind = "port" /\ e.id = p
        /\ \A d \in hjCall.vdans : \E e \in hjOut.result : e.kind = "vdan" /\ e.id = d
        /\ \A n \in hjCall.nodes : \E e \in hjOut.result : e.kind = "node" /\ e.id = n
        /\ hjCall.vms = <<>> => \A e \in hjOut.result : e.vmParents = {}
        /\ hjCall.vlansDict = <<>> => \A e \in hjOut.result : e.pgParents = {}
        /\ hjOut.st = "ok"

\* --------------------------------------------------------------- C25
\* C25: a switch-list record whose internal name matches no DvsPortset header
\* of its host produces no Switch entity: no Switch carries the internal name
\* of one switch together with the friendly name or the switch UUID of the
\* header of another, found for a record processed earlier in the call.
C25_UnmatchedRecordNoSwitch ==
    \A k \in 1..Len(swMaster) : \A i \in 1..MaxEnsRecords :
        swMaster[k].internal_name = InternalName(i) =>
            /\ swMaster[k].switch_uuid = DVSPortRow(i).switchUUID
            /\ swMaster[k].name = DVSPortRow(i).friendlyName

\* --------------------------------------------------------------- C26
\* The VMs that a Port or a Vdan of the host was made a child of.
RelatedVms == UNION {e.vmParents : e \in hjOut.result}

\* C26: every VM that received a parent relationship from a Port or a Vdan
\* of the host is among the VM objects kept for the final object set
\* (adapter.py:445-447 adds all of them), no other VM object is added for
\* them, and their handling does not make the host's collection fail.
C26_RelatedVmsInResult ==
    hjCall.st = "call" =>
        /\ hjOut.st = "ok"
        /\ RelatedVms \subseteq hjOut.rel
        /\ hjOut.rel \subseteq hjCall.rel \cup RelatedVms

\* --------------------------------------------------------------- C27
\* C27: no two Vdan entities that get_vdans returns for a host have the same
\* identity (VDAN index and host), also when two switches of the host each
\* report a VDAN with the same index.
C27_OneVdanPerIndex ==
    clCall.fn = "vdans" =>
        \A a, b \in clOut.objects : (a.id = b.id /\ a.host = b.host) => a = b

\* ------------------------------- the related-node counters of a host
\* get_nodes called for one host with a VLAN map: the node lists of its
\* switches, the UUID resolved for each switch, the master node map.

\* The inventories whose port-groups all carry a VLAN ID.
NodeCountInventories == {inv \in PortGroupInventories : \A g \in 1..Len(inv) : inv[g][1] # 0}

\* The UUID resolved for each switch of the host (node.py:94-103): distinct
\* for distinct switches, or UNKNOWN.
NodeSwitchUUIDs ==
    UNION {{u \in [1..n -> OwningSwitchUUIDs] :
               \A a, b \in 1..n : (a # b /\ u[a] = u[b]) => u[a] = UNKNOWN} : n \in 1..MaxNodeSwitches}

\* The VLAN ID column of the rows of a MAC, 0 for a blank column.
NodeVlanColumns == [Macs -> 0..MaxVlans]

\* The MACs of the master node map at the call.
MasterMacSets == {{}, {MaxMacs}}

\* node.py:117-118, 196-198  the Node of a row and its port-group parents
RelatedNode(mac, pgs) == [mac |-> mac, parents |-> pgs]

\* node.py:108-173  the rows of one output.  acc: the nodesDict of the call
\* and, per port-group, the increments of currentNumRelatedNodes.
RECURSIVE CountRows(_, _, _, _, _, _, _)
CountRows(rows, j, vlanOf, hostSwitchUUID, vlansDict, masterNodeDict, acc) ==
    IF j > Len(rows) THEN acc
    ELSE LET mac == rows[j]
             pgs == IF vlanOf[mac] = 0 THEN {}
                    ELSE NodeVlanParents(vlansDict, vlanOf[mac], hostSwitchUUID)
         IN  IF mac \in masterNodeDict
             THEN CountRows(rows, j + 1, vlanOf, hostSwitchUUID, vlansDict, masterNodeDict, acc)
             ELSE CountRows(rows, j + 1, vlanOf, hostSwitchUUID, vlansDict, masterNodeDict,
                            [nodesDict |-> (mac :> RelatedNode(mac, pgs)) @@ acc.nodesDict,
                             incr |-> [g \in DOMAIN acc.incr |->
                                          acc.incr[g] + (IF g \in pgs THEN 1 ELSE 0)]])

\* node.py:89-176  one output after the other
RECURSIVE CountNodes(_, _, _, _, _, _, _)
CountNodes(outs, i, vlanOf, uuids, vlansDict, masterNodeDict, acc) ==
    IF i > Len(outs) THEN acc
    ELSE CountNodes(outs, i + 1, vlanOf, uuids, vlansDict, masterNodeDict,
                    CountRows(outs[i], 1, vlanOf, uuids[i], vlansDict, masterNodeDict, acc))

CollectNodeCounts ==
    /\ ncCall.st = "none"
    /\ \E uuids \in NodeSwitchUUIDs, inv \in NodeCountInventories,
          vlanOf \in NodeVlanColumns, master \in MasterMacSets :
        \E outs \in [1..Len(uuids) -> SeqsNoRep(Macs)] :
            LET r == CountNodes(outs, 1, vlanOf, uuids, get_vlans(inv), master,
                                [nodesDict |-> <<>>, incr |-> [g \in 1..MaxPortGroups |-> 0]])
            IN  /\ ncCall' = [st |-> "called", outs |-> outs, vlanOf |-> vlanOf, uuids |-> uuids,
                              inv |-> inv, master |-> master]
                /\ ncOut' = [st |-> "ok", nodesDict |-> r.nodesDict, incr |-> r.incr]
    /\ UNCHANGED <<passVars, hostVars, histVars, swVars, ndVars, vlVars, clVars, vpVars, esVars, vmVars, lnVars, nrVars, pbVars, rcVars, hjVars>>

NextNodeCounts == CollectNodeCounts

SpecNodeCounts == Init /\ [][NextNodeCounts]_vars

\* --------------------------------------------------------------- C28
\* The position at which the dump of the i-th switch is issued.
DumpPosition(ids, i) ==
    CHOOSE k \in 1..Len(PortCommands(ids)) :
        PortCommands(ids)[k] = Cmd("ens latency system dump", ids[i])

\* C28: get_ports issues every latency dump of the host before any latency
\* clear; a Port carries the i-th switch ID exactly when it was built from a
\* block of the output of the i-th switch's dump; when any dump or any clear
\* raised, no Port is built for the host.
C28_PortsFromDumps ==
    clCall.fn = "ports" =>
        LET cmds == PortCommands(clCall.ids)
            rows(i) == clCall.resp[DumpPosition(clCall.ids, i)].rows
        IN  /\ Len(cmds) = 2 * Len(clCall.ids)
            /\ \A a, b \in 1..Len(cmds) :
                   (cmds[a].cmd = "ens latency system dump"
                    /\ cmds[b].cmd = "ens latency system clear") => a < b
            /\ (\E k \in 1..Len(clCall.resp) : clCall.resp[k].raised) => clOut.objects = {}
            /\ \A e \in clOut.objects :
                   \E i \in 1..Len(clCall.ids) :
                       /\ e.switch_id = clCall.ids[i]
                       /\ e.id \in 1..Len(rows(i))
                       /\ rows(i)[e.id].kind = "ok"
            /\ (clOut.st = "ok" /\ \A k \in 1..Len(clCall.resp) : ~clCall.resp[k].raised) =>
                   \A i \in 1..Len(clCall.ids) : \A j \in 1..Len(rows(i)) :
                       rows(i)[j].kind = "ok" =>
                           \E e \in clOut.objects : e.switch_id = clCall.ids[i] /\ e.id = j

\* Two switches, every command returned, the second dump alone has a block
\* a Port is built from.
C28_Witness ==
    /\ clCall.fn = "ports"
    /\ Len(clCall.ids) = 2
    /\ clOut.st = "ok"
    /\ \A k \in 1..Len(clCall.resp) : ~clCall.resp[k].raised
    /\ Len(clCall.resp[1].rows) = 0
    /\ Cardinality(clOut.objects) = 1
    /\ \E e \in clOut.objects : e.switch_id = clCall.ids[2] /\ e.id = 2

\* --------------------------------------------------------------- C29
\* The Nodes get_nodes returns for the host that have port-group g as a
\* parent.
NodesRelatedTo(g) ==
    {m \in DOMAIN ncOut.nodesDict : g \in ncOut.nodesDict[m].parents}

\* C29: after the node collection of a host, the increments applied to the
\* related-node counter of each port-group equal the number of returned
\* Nodes that have the port-group as a parent; a MAC on two switches of the
\* host is counted once.
C29_CounterMatchesNodes ==
    ncOut.st = "ok" =>
        \A g \in 1..MaxPortGroups : ncOut.incr[g] = Cardinality(NodesRelatedTo(g))

\* --------------------------------------------------------------- C30
\* C30: one VLAN join makes at most one port-group a parent of a Port or of
\* a Node, also when the VLAN map holds several port-groups of the VLAN ID
\* with the switch UUID of the entity.
C30_AtMostOnePortGroup ==
    vlEntity.kind \in {"port", "node"} => Cardinality(vlParents) <= 1

====
